---- MODULE Spec2Model ----
(***************************************************************************)
(* A model of the LinkGateway runtime of my_blog_backend: the registry's   *)
(* discovery passes (LinkGateway/registry.py), the gateway facade          *)
(* (LinkGateway/gateway.py), the engines' caller validation                *)
(* (BaseEngine/base.py), the Inner Communicator and the Service Proxy      *)
(* (LinkGateway/inner_comm.py, service_proxy.py), the API Mapper           *)
(* (LinkGateway/api_mapper.py), the manifest validators                    *)
(* (LinkGateway/standards.py), the plugin pipeline (LinkGateway/plugin.py),*)
(* the Database Link Manager (LinkGateway/db_link.py) and the Outer        *)
(* Communicator (LinkGateway/outer_comm.py).                               *)
(*                                                                         *)
(* Identifiers are strings.  uuid4() is a fresh name drawn from UuidNames. *)
(* An HTTP path is a sequence of tokens, each the separator "/" or a name. *)
(***************************************************************************)
EXTENDS Integers, Sequences, FiniteSets, TLC

VARIABLES
    fsEngines,    \* engines/ tree: directory -> what its manifest and code do
    fsBiz,        \* services/ tree: directory -> what its service.json holds
    engines,      \* ServiceRegistry.engines: service_id -> engine instance
    services,     \* ServiceRegistry.services: service_id -> [type, status]
    businesses,   \* ServiceRegistry.businesses: service_id -> status
    db,           \* Descriptor Store (service_registry table): service_id -> row
    inst,         \* every BaseEngine object built so far, keyed by its own service_id
    uuidCtr,      \* number of uuid4() values drawn by BaseEngine.__init__
    icEngines,    \* InnerCommunicator.engine_registry: engine_id -> instance
    queue,        \* InnerCommunicator.message_queue
    reqCtr,       \* number of Request objects built (request_id = uuid4())
    passLog,      \* one snapshot per finished registry.discover_services() pass
    lastOp,       \* the last dispatch operation: who called, what it returned, what ran
    routers,      \* APIMapper.routers: service_id -> [prefix, routes]
    mainRouter,   \* APIMapper.main_router.routes, each with the service it came from
    apiRegistry,  \* APIMapper.api_registry: full_path -> api_info
    appRoutes,    \* LinkGateway.app.routes (the externally reachable surface)
    accepted,     \* the add_api_route registrations that returned True since the
                  \* last clear_apis, in order
    mapResult,    \* the services and result of the last map_all_apis call since
                  \* the last clear_apis
    fsMeta,       \* directory -> the service_name and version its manifest declares
    disc,         \* the engine pass in progress: where the registry's thread is
                  \* and what the start worker of the current engine is doing
    manifest,     \* the manifest handed to a validator
    verdict,      \* what the validator answered
    remapLog,     \* the first and the last run of LinkGateway.map_apis
    pm,           \* the PluginManager, the plugins/ tree it scans and what its
                  \* last operation did
    dbl,          \* the DatabaseLinkManager: connections, cached sessions and
                  \* what its last operation did
    oc,           \* the OuterCommunicator: network engines and its last call
    boot,         \* LinkGateway.start: the steps it has taken and how it ended
    reqs          \* the requests holding a session handed out by get_db

gwVars == <<fsEngines, fsBiz, engines, services, businesses, db, inst, uuidCtr,
            icEngines, queue, reqCtr, passLog, lastOp>>
mapVars == <<routers, mainRouter, apiRegistry, appRoutes, accepted, mapResult>>
extVars == <<pm, dbl, oc, boot, reqs>>
auxVars == <<fsMeta, disc, manifest, verdict, remapLog, extVars>>
vars == <<fsEngines, fsBiz, engines, services, businesses, db, inst, uuidCtr,
          icEngines, queue, reqCtr, passLog, lastOp,
          routers, mainRouter, apiRegistry, appRoutes, accepted, mapResult,
          fsMeta, disc, manifest, verdict, remapLog, pm, dbl, oc, boot, reqs>>

----------------------------------------------------------------------------
\* Bounds of the model.

MaxPasses == 2    \* registry.discover_services() passes per behaviour
MaxQueue == 2     \* length of the message queue
MaxReq == 2       \* Request objects built per behaviour
MaxAccepted == 3  \* accepted add_api_route registrations between two clear_apis
MaxServices == 2  \* length of the service list handed to map_all_apis
MaxHandles == 3   \* engines and sessions the Database Link Manager creates
MaxInstances == 4 \* Plugin objects built per behaviour
MaxMtime == 2     \* times a plugin file is written
MaxRuns == 3      \* recorded runs of LinkGateway.map_apis

----------------------------------------------------------------------------
\* Small helpers on finite maps.

EmptyMap == [x \in {} |-> TRUE]

Put(f, k, v) == [x \in (DOMAIN f) \cup {k} |-> IF x = k THEN v ELSE f[x]]

Drop(f, k) == [x \in (DOMAIN f) \ {k} |-> f[x]]

UuidNames == <<"u1", "u2", "u3", "u4", "u5", "u6", "u7", "u8", "u9", "u10">>

Uuid(n) == UuidNames[n]

AllUuids == {UuidNames[i] : i \in 1..Len(UuidNames)}

----------------------------------------------------------------------------
\* The filesystem the discovery passes read.

EngineDirSeq == <<"d1", "d2">>
EngineDirs == {"d1", "d2"}
BizDirSeq == <<"b1">>
BizDirs == {"b1"}

\* The service_id each manifest declares.
ManifestSid == [d \in EngineDirs \cup BizDirs |->
                  CASE d = "d1" -> "e1" [] d = "d2" -> "e2" [] OTHER -> "s1"]

\* The service_name and version the manifests declare: every manifest its
\* own name, or the two engine manifests the same name with the same or with
\* different versions.
DefaultMeta == [d \in EngineDirs \cup BizDirs |->
                  [service_name |-> ManifestSid[d], version |-> "1.0.0"]]
MetaChoices ==
    {DefaultMeta,
     [DefaultMeta EXCEPT !["d2"] = [service_name |-> "e1", version |-> "1.0.0"]],
     [DefaultMeta EXCEPT !["d2"] = [service_name |-> "e1", version |-> "2.0.0"]]}

\* What happens when the registry processes an engine directory:
\*   badjson    engine.json does not parse (json.load raises JSONDecodeError)
\*   baddb      validate_engine_json rejects the manifest's database section
\*   noclass    the module holds no subclass of BaseEngine
\*   loadraise  importing the module or constructing the class raises
\*   noname     the manifest has no service_name; the class loads and start()
\*              returns True
\*   badtype    the manifest's engine_type is neither network nor kernel
\*              (validate_engine_json accepts it); the class loads, start()
\*              returns True and EngineType(...) raises ValueError in
\*              _register_engine_to_db
\*   ok / false / raise / timeout   start() returns True / returns False /
\*              raises / is still running after the 30 s join
EngineStages == {"badjson", "baddb", "noclass", "loadraise", "noname", "badtype",
                 "ok", "false", "raise", "timeout"}
StartStages == {"ok", "false", "raise", "timeout"}

\* What a business directory's service.json holds: a complete manifest, one
\* without a database section, one whose database type is unsupported, text
\* that does not parse, and a manifest without service_name.
BizStages == {"valid", "nodb", "baddb", "badjson", "nofield"}

----------------------------------------------------------------------------
\* The Descriptor Store (LinkGateway/db.py).

\* DatabaseManager.update_service_status: a row that does not exist is left
\* missing (the method returns False and writes nothing).
update_service_status(store, sid, status, reason) ==
    IF sid \in DOMAIN store
    THEN [store EXCEPT ![sid] = [@ EXCEPT !.status = status, !.reason = reason]]
    ELSE store

\* service_exists / update_service / add_service as the registry uses them:
\* update the row when it exists, insert it otherwise.
upsert_service(store, sid, row) == Put(store, sid, row)

----------------------------------------------------------------------------
\* BaseEngine (BaseEngine/base.py).

\* BaseEngine.__init__: service_id is a fresh uuid4, whatever the manifest
\* declares; status is stopped and _allow_direct_call is False.
\* The registry then sets service_name from the manifest, or from the
\* manifest's service_id when the manifest has no service_name.
BaseEngine_init(n, d) ==
    [service_id |-> Uuid(n),
     service_name |-> IF fsEngines[d] = "noname" THEN ManifestSid[d]
                      ELSE fsMeta[d].service_name,
     version |-> fsMeta[d].version, dir |-> d,
     status |-> "stopped", allow_direct_call |-> FALSE]

\* engine.start() as run by _start_engine_with_timeout: an engine whose start
\* succeeds has set its status to running; any other outcome leaves the status
\* as the constructor set it.
start_engine_with_timeout(e, stage) ==
    IF stage = "ok" THEN [e EXCEPT !.status = "running"] ELSE e

----------------------------------------------------------------------------
\* The registry's discovery pass (LinkGateway/registry.py).  A pass threads a
\* record st = [engines, services, businesses, db, inst, ctr, bres, eres].

build_engine_error_result(st, sid, reason) ==
    [st EXCEPT !.db = update_service_status(st.db, sid, "invalid", reason),
               !.eres = Append(st.eres, [service_id |-> sid, status |-> "invalid",
                                         reason |-> reason])]

register_engine_to_memory(st, e) ==
    [st EXCEPT !.engines = Put(st.engines, e.service_id, e.service_id),
               !.services = Put(st.services, e.service_id,
                                [type |-> "engine", status |-> e.status])]

register_engine_to_db(st, e) ==
    [st EXCEPT !.db = upsert_service(st.db, e.service_id,
         [type |-> "engine", name |-> e.service_name,
          status |-> IF e.status = "running" THEN "valid" ELSE "invalid",
          reason |-> IF e.status = "running" THEN "none" ELSE "startup_failed"])]

\* _load_and_create_engine's tail and _start_and_register_engine: the instance
\* is built, started under the timeout, and then registered whatever the start
\* returned; the pass reports it with status valid.
start_and_register_engine(st, d, stage) ==
    LET e == start_engine_with_timeout(BaseEngine_init(st.ctr + 1, d), stage)
        s1 == [st EXCEPT !.ctr = st.ctr + 1, !.inst = Put(st.inst, e.service_id, e)]
        s2 == register_engine_to_db(register_engine_to_memory(s1, e), e)
    IN  [s2 EXCEPT !.eres = Append(s2.eres, [service_id |-> e.service_id,
                                             status |-> "valid", reason |-> "none"])]

\* _start_and_register_engine when _register_engine_to_db raises: the engine
\* is in the memory tables already, and _process_engine's except clause
\* reports the directory invalid.
register_then_raise(st, d) ==
    LET e == start_engine_with_timeout(BaseEngine_init(st.ctr + 1, d), "ok")
        s1 == [st EXCEPT !.ctr = st.ctr + 1, !.inst = Put(st.inst, e.service_id, e)]
    IN  build_engine_error_result(register_engine_to_memory(s1, e), d, "load_error")

process_engine(st, d, stage) ==
    CASE stage = "badjson"   -> build_engine_error_result(st, d, "invalid_json")
      [] stage = "baddb"     ->
            build_engine_error_result(
                [st EXCEPT !.db = update_service_status(st.db, ManifestSid[d],
                                                        "invalid", "validation")],
                d, "unknown_error")
      [] stage = "noclass"   ->
            build_engine_error_result(
                [st EXCEPT !.db = update_service_status(st.db, ManifestSid[d],
                                                        "invalid", "no_engine_class")],
                d, "unknown_error")
      [] stage = "loadraise" -> build_engine_error_result(st, d, "load_error")
      [] stage = "noname"    -> start_and_register_engine(st, d, "ok")
      [] stage = "badtype"   -> register_then_raise(st, d)
      [] OTHER               -> start_and_register_engine(st, d, stage)

\* _process_business without the check for a database section.
process_business_database_optional(st, d, stage) ==
    LET sid == ManifestSid[d] IN
    CASE stage = "badjson" ->
            [st EXCEPT !.db = update_service_status(st.db, d, "invalid", "invalid_json"),
                       !.bres = Append(st.bres, [service_id |-> d, status |-> "invalid",
                                                 reason |-> "invalid_json"])]
      [] stage = "baddb" ->
            [st EXCEPT !.db = update_service_status(st.db, sid, "invalid", "validation"),
                       !.bres = Append(st.bres, [service_id |-> sid, status |-> "invalid",
                                                 reason |-> "validation"])]
      [] stage = "nofield" ->
            [st EXCEPT !.db = update_service_status(st.db, d, "invalid", "key_error"),
                       !.bres = Append(st.bres, [service_id |-> d, status |-> "invalid",
                                                 reason |-> "key_error"])]
      [] OTHER ->
            [st EXCEPT !.businesses = Put(st.businesses, sid, "valid"),
                       !.services = Put(st.services, sid,
                                        [type |-> "business", status |-> "valid"]),
                       !.db = upsert_service(st.db, sid,
                                  [type |-> "business", name |-> fsMeta[d].service_name,
                                   status |-> "valid", reason |-> "none"]),
                       !.bres = Append(st.bres, [service_id |-> sid, status |-> "valid",
                                                 reason |-> "none"])]

process_business(st, d, stage) ==
    LET sid == ManifestSid[d] IN
    CASE stage = "badjson" ->
            [st EXCEPT !.db = update_service_status(st.db, d, "invalid", "invalid_json"),
                       !.bres = Append(st.bres, [service_id |-> d, status |-> "invalid",
                                                 reason |-> "invalid_json"])]
      [] stage = "baddb" ->
            [st EXCEPT !.db = update_service_status(st.db, sid, "invalid", "validation"),
                       !.bres = Append(st.bres, [service_id |-> sid, status |-> "invalid",
                                                 reason |-> "validation"])]
      [] stage = "nofield" ->
            [st EXCEPT !.db = update_service_status(st.db, d, "invalid", "key_error"),
                       !.bres = Append(st.bres, [service_id |-> d, status |-> "invalid",
                                                 reason |-> "key_error"])]
      [] stage = "nodb" ->
            [st EXCEPT !.db = update_service_status(st.db, sid, "invalid",
                                                    "missing_database_configuration"),
                       !.bres = Append(st.bres, [service_id |-> sid, status |-> "invalid",
                                         reason |-> "missing_database_configuration"])]
      [] OTHER ->
            [st EXCEPT !.businesses = Put(st.businesses, sid, "valid"),
                       !.services = Put(st.services, sid,
                                        [type |-> "business", status |-> "valid"]),
                       !.db = upsert_service(st.db, sid,
                                  [type |-> "business", name |-> fsMeta[d].service_name,
                                   status |-> "valid", reason |-> "none"]),
                       !.bres = Append(st.bres, [service_id |-> sid, status |-> "valid",
                                                 reason |-> "none"])]

RECURSIVE discover_businesses(_, _)
discover_businesses(st, dirs) ==
    IF dirs = <<>> THEN st
    ELSE discover_businesses(IF fsBiz[Head(dirs)] = "absent" THEN st
                             ELSE process_business(st, Head(dirs), fsBiz[Head(dirs)]),
                             Tail(dirs))

RECURSIVE discover_engines(_, _)
discover_engines(st, dirs) ==
    IF dirs = <<>> THEN st
    ELSE discover_engines(process_engine(st, Head(dirs), fsEngines[Head(dirs)]),
                          Tail(dirs))

\* ServiceRegistry.discover_services: the three tables are cleared, then the
\* business pass and the engine pass run over the trees.
registry_discover_services ==
    LET st0 == [engines |-> EmptyMap, services |-> EmptyMap, businesses |-> EmptyMap,
                db |-> db, inst |-> inst, ctr |-> uuidCtr,
                bres |-> <<>>, eres |-> <<>>]
    IN  discover_engines(discover_businesses(st0, BizDirSeq), EngineDirSeq)

Snapshot(st) ==
    [businesses |-> st.bres, engines |-> st.eres,
     services |-> st.services, db |-> st.db]

----------------------------------------------------------------------------
\* Caller validation (BaseEngine/base.py).  A call stack is a sequence of
\* frames [gw, func]: gw says whether the frame's file lies in the gateway
\* package (its path holds "LinkGateway" or "gateway.py").

SanctionedFuncs == {"forward_request", "send_request", "proxy_request",
                    "send_async_request"}

Frame(gw, func) == [gw |-> gw, func |-> func]

\* The code a caller of each kind runs in: a business service's module, an
\* engine's module (its api_routes handlers call self.engine.handle_request),
\* or a script outside the package.
Callers == {"business", "engine"}
CallerStack(c) == <<Frame(FALSE, c)>>

validate_caller(e, stack) ==
    \/ \E i \in 1..Len(stack) : stack[i].gw /\ stack[i].func \in SanctionedFuncs
    \/ e.allow_direct_call

\* The actions a request may carry; the handler of every engine raises on
\* "boom", the action "only_e1" is one that the engine named e1 alone
\* supports (every other engine's handler raises on it), and a handler
\* returns on anything else.
Actions == {"ping", "boom"}
handle_request_impl(e, act) ==
    IF act = "boom" \/ (act = "only_e1" /\ e.service_name # "e1")
    THEN "raised"
    ELSE "returned"

\* BaseEngine.handle_request: PermissionError unless the caller validates.
\* The method is abstract in BaseEngine, so an engine that can be instantiated
\* overrides it; the model's engines delegate to this base version.  (The
\* shipped PermDog and FileEngine classes do not override it: constructing
\* them raises, which is the stage "loadraise".)
handle_request(e, stack, act) ==
    IF ~validate_caller(e, stack) THEN "permission_error"
    ELSE handle_request_impl(e, act)

----------------------------------------------------------------------------
\* What a dispatch operation returned, and the record of the last one.

NoRet == [kind |-> "nothing", status |-> "none", code |-> 0, rid |-> 0, results |-> <<>>]
NoneRet == [NoRet EXCEPT !.kind = "None"]
Envelope(status, code, rid) ==
    [kind |-> "envelope", status |-> status, code |-> code, rid |-> rid, results |-> <<>>]
Response_success(rid) == Envelope("success", 200, rid)
Response_error(rid, code) == Envelope("error", code, rid)
HttpError(code) == [NoRet EXCEPT !.kind = "http_exception", !.code = code]
Raised == [NoRet EXCEPT !.kind = "exception"]
Plain(status) == [NoRet EXCEPT !.kind = "dict", !.status = status]

\* hooks: the notify_* calls the operation made around the handler; neither
\* the communicator nor the proxy makes any.
Op(op, c, target, act, ret, ran, denied) ==
    [op |-> op, caller |-> c, target |-> target, action |-> act,
     ret |-> ret, ran |-> ran, denied |-> denied, hooks |-> <<>>]
NoOp == Op("none", "none", "none", "none", NoRet, {}, {})

\* The identifiers a caller may name as a target: the manifests' service ids
\* and the ids of the instances built so far.
Targets == {ManifestSid[d] : d \in EngineDirs} \cup DOMAIN inst

----------------------------------------------------------------------------
\* The gateway facade and the registry endpoints (LinkGateway/gateway.py).

StoreTables(st) ==
    /\ engines' = st.engines
    /\ services' = st.services
    /\ businesses' = st.businesses
    /\ db' = st.db
    /\ uuidCtr' = st.ctr
    /\ passLog' = Append(passLog, Snapshot(st))

\* LinkGateway.discover_services: a registry pass, then
\* _register_engines_to_inner_comm over every engine the registry holds.
discover_services ==
    /\ Len(passLog) < MaxPasses
    /\ LET st == registry_discover_services
           ids == DOMAIN st.engines
       IN  /\ StoreTables(st)
           /\ inst' = [u \in DOMAIN st.inst |->
                         IF u \in ids
                         THEN [st.inst[u] EXCEPT !.allow_direct_call = TRUE]
                         ELSE st.inst[u]]
           /\ icEngines' = [x \in (DOMAIN icEngines) \cup ids |->
                              IF x \in ids THEN st.engines[x] ELSE icEngines[x]]
    /\ UNCHANGED <<fsEngines, fsBiz, queue, reqCtr, lastOp>>
    /\ UNCHANGED <<mapVars, auxVars>>

\* The same pass step by step, as the registry's thread and the start worker
\* of _start_engine_with_timeout take turns.  disc.pc says where the
\* registry's thread is: idle, scan (at the top of the loop over the engine
\* directories, disc.i the next directory) or join (inside thread.join).

\* The pass record made of the tables as they stand.
PassState ==
    [engines |-> engines, services |-> services, businesses |-> businesses,
     db |-> db, inst |-> inst, ctr |-> uuidCtr,
     bres |-> disc.bres, eres |-> disc.eres]

StorePass(st) ==
    /\ engines' = st.engines
    /\ services' = st.services
    /\ businesses' = st.businesses
    /\ db' = st.db
    /\ inst' = st.inst
    /\ uuidCtr' = st.ctr

\* The stages in which the registry gets as far as starting the engine.
ReachesStart(stage) == stage \in StartStages \cup {"noname", "badtype"}

\* discover_services up to the loop of discover_engines: the tables are
\* cleared and the business pass runs.
begin_pass ==
    /\ disc.pc = "idle"
    /\ Len(passLog) < MaxPasses
    /\ LET st0 == [engines |-> EmptyMap, services |-> EmptyMap, businesses |-> EmptyMap,
                   db |-> db, inst |-> inst, ctr |-> uuidCtr,
                   bres |-> <<>>, eres |-> <<>>]
           st == discover_businesses(st0, BizDirSeq)
       IN  /\ StorePass(st)
           /\ disc' = [disc EXCEPT !.pc = "scan", !.i = 1, !.worker = "none",
                                   !.bres = st.bres, !.eres = <<>>]
    /\ UNCHANGED <<fsEngines, fsBiz, icEngines, queue, reqCtr, passLog, lastOp>>
    /\ UNCHANGED <<mapVars, fsMeta, manifest, verdict, remapLog, extVars>>

\* One turn of the loop for an engine the registry gives up on before
\* starting it.
next_engine ==
    /\ disc.pc = "scan"
    /\ disc.i <= Len(EngineDirSeq)
    /\ ~ReachesStart(fsEngines[EngineDirSeq[disc.i]])
    /\ LET d == EngineDirSeq[disc.i]
           st == process_engine(PassState, d, fsEngines[d])
       IN  /\ StorePass(st)
           /\ disc' = [disc EXCEPT !.i = disc.i + 1, !.eres = st.eres]
    /\ UNCHANGED <<fsEngines, fsBiz, icEngines, queue, reqCtr, passLog, lastOp>>
    /\ UNCHANGED <<mapVars, fsMeta, manifest, verdict, remapLog, extVars>>

\* _start_engine_with_timeout: thread.start(), then the registry's thread
\* enters thread.join(timeout).
spawn_start_worker ==
    /\ disc.pc = "scan"
    /\ disc.i <= Len(EngineDirSeq)
    /\ ReachesStart(fsEngines[EngineDirSeq[disc.i]])
    /\ disc' = [disc EXCEPT !.pc = "join", !.worker = "running"]
    /\ UNCHANGED <<gwVars, mapVars, fsMeta, manifest, verdict, remapLog, extVars>>

\* The worker: engine.start() returns or raises.  An engine of stage timeout
\* is still inside start() when the join gives up.
worker_returns ==
    /\ disc.pc = "join"
    /\ disc.worker = "running"
    /\ fsEngines[EngineDirSeq[disc.i]] # "timeout"
    /\ disc' = [disc EXCEPT !.worker = "finished"]
    /\ UNCHANGED <<gwVars, mapVars, fsMeta, manifest, verdict, remapLog, extVars>>

\* thread.join returns because the worker ended; the engine is registered.
join_returns ==
    /\ disc.pc = "join"
    /\ disc.worker = "finished"
    /\ LET d == EngineDirSeq[disc.i]
           st == process_engine(PassState, d, fsEngines[d])
       IN  /\ StorePass(st)
           /\ disc' = [disc EXCEPT !.pc = "scan", !.i = disc.i + 1, !.worker = "none",
                                   !.eres = st.eres]
    /\ UNCHANGED <<fsEngines, fsBiz, icEngines, queue, reqCtr, passLog, lastOp>>
    /\ UNCHANGED <<mapVars, fsMeta, manifest, verdict, remapLog, extVars>>

\* A join that waits for the worker without a timeout.
join_without_timeout ==
    /\ FALSE
    /\ UNCHANGED vars

\* thread.join(timeout) returns after the timeout with the worker alive: the
\* daemon worker is left behind and the engine registered as it stands.
join_times_out ==
    /\ disc.pc = "join"
    /\ disc.worker = "running"
    /\ fsEngines[EngineDirSeq[disc.i]] = "timeout"
    /\ LET d == EngineDirSeq[disc.i]
           st == process_engine(PassState, d, fsEngines[d])
       IN  /\ StorePass(st)
           /\ disc' = [disc EXCEPT !.pc = "scan", !.i = disc.i + 1, !.worker = "none",
                                   !.eres = st.eres,
                                   !.abandoned = disc.abandoned + 1,
                                   !.gaveup = @ \cup {Uuid(st.ctr)},
                                   !.late = @ \cup {Uuid(st.ctr)}]
    /\ UNCHANGED <<fsEngines, fsBiz, icEngines, queue, reqCtr, passLog, lastOp>>
    /\ UNCHANGED <<mapVars, fsMeta, manifest, verdict, remapLog, extVars>>

\* A worker the join gave up on is a daemon thread still inside
\* engine.start(): when start() returns at last, the engine has set its own
\* status as a start that succeeds does (ok), or start() fails and leaves it.
abandoned_worker_returns(u, ok) ==
    /\ u \in disc.late
    /\ inst' = [inst EXCEPT ![u] = start_engine_with_timeout(
                                       @, IF ok THEN "ok" ELSE "false")]
    /\ disc' = [disc EXCEPT !.late = @ \ {u}]
    /\ UNCHANGED <<fsEngines, fsBiz, engines, services, businesses, db, uuidCtr,
                   icEngines, queue, reqCtr, passLog, lastOp>>
    /\ UNCHANGED <<mapVars, fsMeta, manifest, verdict, remapLog, extVars>>

\* The loop is over: registry.discover_services returns and the gateway
\* registers the engines with the communicator.
end_pass ==
    /\ disc.pc = "scan"
    /\ disc.i > Len(EngineDirSeq)
    /\ LET ids == DOMAIN engines
       IN  /\ inst' = [u \in DOMAIN inst |->
                         IF u \in ids THEN [inst[u] EXCEPT !.allow_direct_call = TRUE]
                         ELSE inst[u]]
           /\ icEngines' = [x \in (DOMAIN icEngines) \cup ids |->
                              IF x \in ids THEN engines[x] ELSE icEngines[x]]
    /\ passLog' = Append(passLog, Snapshot(PassState))
    /\ disc' = [disc EXCEPT !.pc = "idle", !.i = 0]
    /\ UNCHANGED <<fsEngines, fsBiz, engines, services, businesses, db, uuidCtr,
                   queue, reqCtr, lastOp>>
    /\ UNCHANGED <<mapVars, fsMeta, manifest, verdict, remapLog, extVars>>

\* POST /services/reload: ServiceRegistry.reload_services only.
reload_services ==
    /\ Len(passLog) < MaxPasses
    /\ LET st == registry_discover_services
       IN  /\ StoreTables(st)
           /\ inst' = st.inst
    /\ UNCHANGED <<fsEngines, fsBiz, icEngines, queue, reqCtr, lastOp>>
    /\ UNCHANGED <<mapVars, auxVars>>

\* ServiceRegistry.check_all_services_health: the ids it lists as healthy.
\* A descriptor in memory is healthy when its info reads valid or, failing
\* that, when its row of the Descriptor Store does, unless it is an engine
\* that is not running; a row without a descriptor in memory is healthy when
\* it reads valid.
check_all_services_health ==
    {sid \in DOMAIN services :
        /\ \/ services[sid].status = "valid"
           \/ sid \in DOMAIN db /\ db[sid].status = "valid"
        /\ ~(services[sid].type = "engine" /\ sid \in DOMAIN engines
                /\ inst[engines[sid]].status # "running")}
    \cup {sid \in (DOMAIN db) \ (DOMAIN services) : db[sid].status = "valid"}

\* A business directory is removed from the services/ tree.
remove_service_dir(d) ==
    /\ fsBiz[d] # "absent"
    /\ fsBiz' = [fsBiz EXCEPT ![d] = "absent"]
    /\ UNCHANGED <<fsEngines, engines, services, businesses, db, inst, uuidCtr,
                   icEngines, queue, reqCtr, passLog, lastOp>>
    /\ UNCHANGED <<mapVars, auxVars>>

\* ServiceRegistry.unregister_service: the id leaves the three tables and the
\* Descriptor Store.
unregister_service(sid) ==
    /\ services' = Drop(services, sid)
    /\ businesses' = Drop(businesses, sid)
    /\ engines' = Drop(engines, sid)
    /\ db' = Drop(db, sid)
    /\ UNCHANGED <<fsEngines, fsBiz, inst, uuidCtr, icEngines, queue, reqCtr, passLog,
                   lastOp>>
    /\ UNCHANGED <<mapVars, auxVars>>

----------------------------------------------------------------------------
\* The Inner Communicator (LinkGateway/inner_comm.py).

InnerFrame(func) == Frame(TRUE, func)

\* InnerCommunicator.send_request.
send_request(c, target, act) ==
    /\ IF target \notin DOMAIN icEngines
       THEN /\ lastOp' = Op("send_request", c, target, act, NoneRet, {}, {})
            /\ UNCHANGED reqCtr
       ELSE /\ reqCtr < MaxReq
            /\ LET e == inst[icEngines[target]]
                   stack == Append(CallerStack(c), InnerFrame("send_request"))
                   out == handle_request(e, stack, act)
               IN  lastOp' = Op("send_request", c, target, act,
                                IF out = "returned"
                                THEN Response_success(reqCtr + 1)
                                ELSE Response_error(reqCtr + 1, 500),
                                IF out = "permission_error" THEN {} ELSE {e.service_id},
                                IF out = "permission_error" THEN {e.service_id} ELSE {})
            /\ reqCtr' = reqCtr + 1
    /\ UNCHANGED <<fsEngines, fsBiz, engines, services, businesses, db, inst,
                   uuidCtr, icEngines, queue, passLog>>
    /\ UNCHANGED <<mapVars, auxVars>>

\* InnerCommunicator.send_async_request: the request is queued as pending and
\* its request_id returned.
send_async_request(c, target, act) ==
    /\ reqCtr < MaxReq
    /\ Len(queue) < MaxQueue
    /\ queue' = Append(queue, [rid |-> reqCtr + 1, target |-> target, action |-> act])
    /\ reqCtr' = reqCtr + 1
    /\ lastOp' = Op("send_async_request", c, target, act,
                    [NoRet EXCEPT !.kind = "request_id", !.rid = reqCtr + 1], {}, {})
    /\ UNCHANGED <<fsEngines, fsBiz, engines, services, businesses, db, inst,
                   uuidCtr, icEngines, passLog>>
    /\ UNCHANGED <<mapVars, auxVars>>

\* _process_single_message for one queued request, run from
\* process_message_queue in the frame of whoever drains.
process_single_message(m, c) ==
    IF m.target \notin DOMAIN icEngines
    THEN [rid |-> m.rid, status |-> "error", code |-> 404, out |-> "not_found",
          target |-> m.target]
    ELSE LET e == inst[icEngines[m.target]]
             stack == CallerStack(c) \o <<InnerFrame("process_message_queue"),
                                          InnerFrame("_process_single_message")>>
             out == handle_request(e, stack, m.action)
         IN  [rid |-> m.rid, status |-> IF out = "returned" THEN "success" ELSE "error",
              code |-> IF out = "returned" THEN 200 ELSE 500, out |-> out,
              target |-> icEngines[m.target]]

\* process_message_queue without the final message_queue.clear().
process_message_queue_keep_pending(c) ==
    /\ LET res == [i \in 1..Len(queue) |-> process_single_message(queue[i], c)]
       IN  lastOp' = Op("process_message_queue", c, "none", "none",
                        [NoRet EXCEPT !.kind = "results", !.results = res],
                        {res[i].target : i \in {j \in 1..Len(res) :
                                                  res[j].out \in {"returned", "raised"}}},
                        {res[i].target : i \in {j \in 1..Len(res) :
                                                  res[j].out = "permission_error"}})
    /\ UNCHANGED <<fsEngines, fsBiz, engines, services, businesses, db, inst,
                   uuidCtr, icEngines, queue, reqCtr, passLog>>
    /\ UNCHANGED <<mapVars, auxVars>>

\* InnerCommunicator.process_message_queue: every queued message is handled in
\* order and the queue is cleared.
process_message_queue(c) ==
    /\ LET res == [i \in 1..Len(queue) |-> process_single_message(queue[i], c)]
       IN  lastOp' = Op("process_message_queue", c, "none", "none",
                        [NoRet EXCEPT !.kind = "results", !.results = res],
                        {res[i].target : i \in {j \in 1..Len(res) :
                                                  res[j].out \in {"returned", "raised"}}},
                        {res[i].target : i \in {j \in 1..Len(res) :
                                                  res[j].out = "permission_error"}})
    /\ queue' = <<>>
    /\ UNCHANGED <<fsEngines, fsBiz, engines, services, businesses, db, inst,
                   uuidCtr, icEngines, reqCtr, passLog>>
    /\ UNCHANGED <<mapVars, auxVars>>

\* The broadcast loop that lets the first exception leave the loop.
RECURSIVE broadcast_loop_abort(_, _, _, _)
broadcast_loop_abort(n, c, act, acc) ==
    IF n > Len(UuidNames) THEN acc
    ELSE IF Uuid(n) \notin DOMAIN icEngines THEN broadcast_loop_abort(n + 1, c, act, acc)
    ELSE LET e == inst[icEngines[Uuid(n)]]
             stack == Append(CallerStack(c), InnerFrame("broadcast"))
             out == handle_request(e, stack, act)
         IN  IF out # "returned" THEN acc
             ELSE broadcast_loop_abort(n + 1, c, act,
                      Append(acc, [engine_id |-> Uuid(n), status |-> "success",
                                   out |-> out, target |-> icEngines[Uuid(n)]]))

\* The loop of InnerCommunicator.broadcast over engine_registry.items(), in
\* the order the ids were registered: each engine's handle_request is called
\* inside its own try/except and its entry written.
RECURSIVE broadcast_loop(_, _, _, _)
broadcast_loop(n, c, act, acc) ==
    IF n > Len(UuidNames) THEN acc
    ELSE IF Uuid(n) \notin DOMAIN icEngines THEN broadcast_loop(n + 1, c, act, acc)
    ELSE LET e == inst[icEngines[Uuid(n)]]
             stack == Append(CallerStack(c), InnerFrame("broadcast"))
             out == handle_request(e, stack, act)
         IN  broadcast_loop(n + 1, c, act,
                 Append(acc, [engine_id |-> Uuid(n),
                              status |-> IF out = "returned" THEN "success" ELSE "error",
                              out |-> out, target |-> icEngines[Uuid(n)]]))

\* The actions a broadcast may carry.
BroadcastActions == Actions \cup {"only_e1"}

\* InnerCommunicator.broadcast: the entries written, in the order written.
broadcast(c, act) ==
    /\ LET res == broadcast_loop(1, c, act, <<>>)
       IN  lastOp' = Op("broadcast", c, "all", act,
                        [NoRet EXCEPT !.kind = "broadcast", !.results = res],
                        {res[i].target : i \in {j \in 1..Len(res) :
                                                  res[j].out \in {"returned", "raised"}}},
                        {res[i].target : i \in {j \in 1..Len(res) :
                                                  res[j].out = "permission_error"}})
    /\ UNCHANGED <<fsEngines, fsBiz, engines, services, businesses, db, inst,
                   uuidCtr, icEngines, queue, reqCtr, passLog>>
    /\ UNCHANGED <<mapVars, auxVars>>

----------------------------------------------------------------------------
\* The Service Proxy (LinkGateway/service_proxy.py) and the registry lookups
\* it relies on.

get_engine(engine_id) ==
    IF engine_id \in DOMAIN engines THEN engines[engine_id] ELSE "None"

\* ServiceRegistry.check_service_health: the in-memory descriptor decides when
\* there is one (its info.status must read "valid"), the Descriptor Store
\* otherwise.
check_service_health(sid) ==
    IF sid \in DOMAIN services
    THEN /\ services[sid].status = "valid"
         /\ \/ services[sid].type # "engine"
            \/ /\ sid \in DOMAIN engines
               /\ inst[engines[sid]].status = "running"
    ELSE sid \in DOMAIN db /\ db[sid].status = "valid"

\* The route /internal/proxy/{engine_id}.
proxy_request(engine_id, act) ==
    /\ lastOp' =
         IF act = "" THEN Op("proxy_request", "external", engine_id, act, HttpError(400), {}, {})
         ELSE IF get_engine(engine_id) = "None"
         THEN Op("proxy_request", "external", engine_id, act, HttpError(404), {}, {})
         ELSE IF ~check_service_health(engine_id)
         THEN Op("proxy_request", "external", engine_id, act, HttpError(503), {}, {})
         ELSE LET e == inst[get_engine(engine_id)]
                  stack == <<Frame(TRUE, "proxy_request"), Frame(TRUE, "_call_engine")>>
                  out == handle_request(e, stack, act)
              IN  Op("proxy_request", "external", engine_id, act,
                     Plain(IF out = "returned" THEN "success" ELSE "error"),
                     IF out = "permission_error" THEN {} ELSE {e.service_id},
                     IF out = "permission_error" THEN {e.service_id} ELSE {})
    /\ UNCHANGED <<fsEngines, fsBiz, engines, services, businesses, db, inst,
                   uuidCtr, icEngines, queue, reqCtr, passLog>>
    /\ UNCHANGED <<mapVars, auxVars>>

\* Code outside the gateway package that holds an engine object calls its
\* handle_request: no gateway frame is on the stack.
direct_call(c, u, act) ==
    /\ u \in DOMAIN inst
    /\ LET out == handle_request(inst[u], CallerStack(c), act)
       IN  lastOp' = Op("direct_call", c, u, act,
                        IF out = "permission_error"
                        THEN [NoRet EXCEPT !.kind = "PermissionError"]
                        ELSE IF out = "raised" THEN Raised ELSE Plain("success"),
                        IF out = "permission_error" THEN {} ELSE {u},
                        IF out = "permission_error" THEN {u} ELSE {})
    /\ UNCHANGED <<fsEngines, fsBiz, engines, services, businesses, db, inst,
                   uuidCtr, icEngines, queue, reqCtr, passLog>>
    /\ UNCHANGED <<mapVars, auxVars>>

----------------------------------------------------------------------------
\* The manifest validators (LinkGateway/standards.py).  A manifest is a record
\* that says, key by key, whether the key is absent or what kind of value it
\* holds:
\*   database   sqlite / oracle: a dict with that type; notype: a dict
\*              without "type"; notdict: a value that is not a dict
\*   apis       ok: a list whose entries have path and method; nopath,
\*              nomethod: a list with an entry lacking that key; notlist: a
\*              value that is not a list

Manifests ==
    [service_id : {"absent", "s"}, service_name : {"absent", "n"},
     version : {"absent", "v"},
     engine_type : {"absent", "kernel", "network", "plugin"},
     database : {"absent", "sqlite", "oracle", "notype", "notdict"},
     apis : {"absent", "ok", "nopath", "nomethod", "notlist"}]

Has(m, key) == m[key] # "absent"

\* The dicts the helpers return, and Python's truth value of a dict.
Verdict(valid, reason) == [valid |-> valid, reason |-> reason]
Truthy(dict) == DOMAIN dict # {}

REQUIRED_FIELDS == <<"service_id", "service_name", "version">>
ENGINE_REQUIRED_FIELDS == <<"service_id", "service_name", "version", "engine_type">>
ENGINE_TYPES == {"network", "kernel"}
SupportedDatabases == {"sqlite"}

\* _check_required_fields: {"valid": False, "reason": ...} for the first
\* missing field, {"valid": True} otherwise.
check_required_fields(m, fields) ==
    IF \E i \in 1..Len(fields) : ~Has(m, fields[i])
    THEN Verdict(FALSE, "Missing required field")
    ELSE [valid |-> TRUE]

check_service_id_format(m) ==
    IF ~Has(m, "service_id") THEN Verdict(FALSE, "Missing service_id")
    ELSE [valid |-> TRUE]

check_engine_type(m) ==
    IF m.engine_type \notin ENGINE_TYPES THEN Verdict(FALSE, "Invalid engine type")
    ELSE [valid |-> TRUE]

\* ServiceStandard._validate_database_config.
validate_database_config(database) ==
    CASE database = "notdict" -> Verdict(FALSE, "Database config must be a dictionary")
      [] database = "notype"  -> Verdict(FALSE, "Missing required field")
      [] database \notin SupportedDatabases -> Verdict(FALSE, "Unsupported database type")
      [] OTHER                -> [valid |-> TRUE]

\* ServiceStandard._validate_apis_config with is_engine False.
validate_apis_config(apis) ==
    CASE apis = "notlist" -> Verdict(FALSE, "APIs must be a list")
      [] apis \in {"nopath", "nomethod"} -> Verdict(FALSE, "Missing required field")
      [] OTHER -> [valid |-> TRUE]

Returned(v) == [outcome |-> "returned", valid |-> v.valid, reason |-> v.reason]
AttributeError == [outcome |-> "AttributeError", valid |-> FALSE, reason |-> "none"]

\* ServiceStandard.validate_service_json: the two leading checks test the
\* truth value of the dict the helper returned.
validate_service_json(m) ==
    IF ~Truthy(check_required_fields(m, REQUIRED_FIELDS))
    THEN Returned(Verdict(FALSE, "Missing required fields"))
    ELSE IF ~Truthy(check_service_id_format(m))
    THEN Returned(Verdict(FALSE, "Invalid service_id format"))
    ELSE IF Has(m, "database") /\ ~validate_database_config(m.database).valid
    THEN Returned(validate_database_config(m.database))
    ELSE IF Has(m, "apis") /\ ~validate_apis_config(m.apis).valid
    THEN Returned(validate_apis_config(m.apis))
    ELSE Returned(Verdict(TRUE, "Service JSON format is valid"))

\* EngineStandard.validate_engine_json.  EngineStandard defines neither
\* DATABASE_REQUIRED_FIELDS nor ENGINE_API_REQUIRED_FIELDS, so its
\* _validate_database_config raises AttributeError on a dict and its
\* _validate_apis_config raises AttributeError on a list.
validate_engine_json(m) ==
    IF ~Truthy(check_required_fields(m, ENGINE_REQUIRED_FIELDS))
    THEN Returned(Verdict(FALSE, "Missing required fields"))
    ELSE IF ~Truthy(check_engine_type(m))
    THEN Returned(Verdict(FALSE, "Invalid engine type"))
    ELSE IF Has(m, "database") /\ m.database = "notdict"
    THEN Returned(Verdict(FALSE, "Database config must be a dictionary"))
    ELSE IF Has(m, "database")
    THEN AttributeError
    ELSE IF Has(m, "apis") /\ m.apis = "notlist"
    THEN Returned(Verdict(FALSE, "APIs must be a list"))
    ELSE IF Has(m, "apis")
    THEN AttributeError
    ELSE Returned(Verdict(TRUE, "Engine JSON format is valid"))

\* A call of each validator on the manifest.
call_validate_service_json ==
    /\ verdict' = [fn |-> "validate_service_json",
                   outcome |-> validate_service_json(manifest).outcome,
                   valid |-> validate_service_json(manifest).valid,
                   reason |-> validate_service_json(manifest).reason]
    /\ UNCHANGED <<gwVars, mapVars, fsMeta, disc, manifest, remapLog, extVars>>

call_validate_engine_json ==
    /\ verdict' = [fn |-> "validate_engine_json",
                   outcome |-> validate_engine_json(manifest).outcome,
                   valid |-> validate_engine_json(manifest).valid,
                   reason |-> validate_engine_json(manifest).reason]
    /\ UNCHANGED <<gwVars, mapVars, fsMeta, disc, manifest, remapLog, extVars>>

----------------------------------------------------------------------------
\* The interaction rule (LinkGateway/registry.py).

\* is_service_allowed without the test for two engines.
is_service_allowed_any(source, target) ==
    IF source \notin DOMAIN db \/ target \notin DOMAIN db THEN FALSE
    ELSE TRUE

\* ServiceRegistry.is_service_allowed: both descriptors are read from the
\* store; a missing one refuses, two engines refuse, anything else is allowed.
is_service_allowed(source, target) ==
    IF source \notin DOMAIN db \/ target \notin DOMAIN db THEN FALSE
    ELSE IF db[source].type = "engine" /\ db[target].type = "engine" THEN FALSE
    ELSE TRUE

\* The identifiers a caller may ask about: the manifests' service ids, the
\* ids of the instances built so far and the ids of the stored descriptors.
KnownIds == Targets \cup DOMAIN db \cup {ManifestSid[d] : d \in BizDirs}

\* A call of is_service_allowed.
check_service_allowed(source, target) ==
    /\ lastOp' = Op("is_service_allowed", source, target, "none",
                    Plain(IF is_service_allowed(source, target) THEN "true" ELSE "false"),
                    {}, {})
    /\ UNCHANGED <<fsEngines, fsBiz, engines, services, businesses, db, inst,
                   uuidCtr, icEngines, queue, reqCtr, passLog>>
    /\ UNCHANGED <<mapVars, auxVars>>

----------------------------------------------------------------------------
\* The API Mapper (LinkGateway/api_mapper.py).

Sep == "/"

\* APIMapper._normalize_path: the empty path stays empty, a leading "/" is
\* added when missing, one trailing "/" is removed unless the path is "/".
normalize_path(path) ==
    IF path = <<>> THEN <<>>
    ELSE LET p1 == IF Head(path) # Sep THEN <<Sep>> \o path ELSE path
         IN  IF p1 # <<Sep>> /\ p1[Len(p1)] = Sep
             THEN SubSeq(p1, 1, Len(p1) - 1)
             ELSE p1

\* str.upper on an HTTP method.
upper(m) == CASE m = "get" -> "GET" [] m = "post" -> "POST" [] OTHER -> m

\* APIStandard.SERVICE_API_PREFIX and ENGINE_API_PREFIX: "/api/{id}" both.
SERVICE_API_PREFIX(sid) == <<Sep, "api", Sep, sid>>
ENGINE_API_PREFIX(sid) == <<Sep, "api", Sep, sid>>

\* APIMapper._check_path_conflict: only the one entry the registry holds for
\* the full path is looked at.
check_path_conflict(reg, full_path, methods) ==
    /\ full_path \in DOMAIN reg
    /\ methods \cap reg[full_path].methods # {}

\* APIMapper.create_router: a fresh router replaces whatever the service had.
create_router(rs, sid, api_prefix) ==
    Put(rs, sid, [prefix |-> normalize_path(api_prefix), routes |-> {}])

Route(owner, path, methods) == [owner |-> owner, path |-> path, methods |-> methods]

\* The paths and method lists handed to add_api_route, and the services it is
\* called for.
RawPaths == {<<Sep, "test">>, <<"test", Sep>>, <<Sep>>, <<"test", Sep, Sep>>}
MethodLists == {{"GET"}, {"post"}, {"GET", "POST"}}
BusinessIds == {"svc-a", "svc-b"}
EngineIds == {"eng-a"}
RouteOwners == {"svc-a", "svc-b"}

\* APIMapper.add_api_route.  The route lands in the service's router (never in
\* the main router) and its api_info replaces the registry's entry for the
\* full path.
add_api_route(sid, path, methodList) ==
    LET rs == IF sid \in DOMAIN routers THEN routers ELSE create_router(routers, sid, <<>>)
        router == rs[sid]
        normalized_path == normalize_path(path)
        full_path == router.prefix \o normalized_path
        methods == {upper(m) : m \in methodList}
    IN  /\ Len(accepted) < MaxAccepted
        /\ IF check_path_conflict(apiRegistry, full_path, methods)
           THEN /\ routers' = rs
                /\ UNCHANGED <<apiRegistry, accepted>>
           ELSE /\ routers' = [rs EXCEPT ![sid].routes =
                                  @ \cup {Route(sid, full_path, methods)}]
                /\ apiRegistry' = Put(apiRegistry, full_path,
                                      [service_id |-> sid, methods |-> methods])
                /\ accepted' = Append(accepted, Route(sid, full_path, methods))
        /\ UNCHANGED <<mainRouter, appRoutes, mapResult>>
        /\ UNCHANGED <<gwVars, auxVars>>

\* A business descriptor as map_business_apis sees it: the directory it came
\* from, whether business_path is set, whether service.json can be read, the
\* route module it ships (setup_router hook, a prebuilt router, or none) and
\* the routes that module declares.  An engine descriptor carries the apis
\* list of its info.
Biz(sid, dir, cause, module, routes) ==
    [service_id |-> sid, type |-> "business", dir |-> dir, cause |-> cause,
     module |-> module, routes |-> routes, apis |-> <<>>]
Eng(sid, apis) ==
    [service_id |-> sid, type |-> "engine", dir |-> sid, cause |-> "ok",
     module |-> "none", routes |-> {}, apis |-> apis]

Declared(path, method) == [path |-> path, method |-> method]

ServiceDescs ==
    {Biz("svc-a", "b1", "ok", "setup", {Declared(<<Sep, "foo">>, "GET")}),
     Biz("svc-a", "b2", "ok", "router", {Declared(<<Sep, "foo">>, "GET")}),
     Biz("svc-b", "b3", "ok", "none", {}),
     Biz("svc-b", "b3", "badjson", "setup", {Declared(<<Sep, "foo">>, "GET")}),
     Eng("eng-a", <<Declared(<<"status", Sep>>, "get"), Declared(<<Sep, "status">>, "GET")>>)}

ServiceLists ==
    UNION {[1..n -> ServiceDescs] : n \in 0..MaxServices}

\* A mapping pass threads st = [routers, mainRouter, apiRegistry, success, failed].

\* The tail of map_business_apis that is meant to copy the router's routes into
\* the registry: it runs only when the router holds no route.
RECURSIVE register_router_routes(_, _, _)
register_router_routes(reg, sid, routes) ==
    IF routes = {} THEN reg
    ELSE LET r == CHOOSE x \in routes : TRUE
             full_path == normalize_path(r.path)
             reg1 == IF check_path_conflict(reg, full_path, r.methods) THEN reg
                     ELSE Put(reg, full_path, [service_id |-> sid, methods |-> r.methods])
         IN  register_router_routes(reg1, sid, routes \ {r})

\* APIMapper.map_business_apis; the result says whether it returned True.
map_business_apis(st, info) ==
    IF info.cause # "ok" THEN [st |-> st, ok |-> FALSE]
    ELSE LET sid == info.service_id
             rs0 == create_router(st.routers, sid, normalize_path(SERVICE_API_PREFIX(sid)))
             prefix == rs0[sid].prefix
             added == IF info.module \in {"setup", "router"}
                      THEN {Route(sid, prefix \o d.path, {upper(d.method)}) : d \in info.routes}
                      ELSE {}
             rs1 == [rs0 EXCEPT ![sid].routes = added]
             reg == IF rs1[sid].routes # {} THEN st.apiRegistry
                    ELSE register_router_routes(st.apiRegistry, sid, rs1[sid].routes)
         IN  [st |-> [st EXCEPT !.routers = rs1,
                                !.apiRegistry = reg,
                                !.mainRouter = @ \cup rs1[sid].routes],
              ok |-> TRUE]

map_business_service(st, info) ==
    LET r == map_business_apis(st, info)
    IN  IF r.ok THEN [r.st EXCEPT !.success = Append(@, info.service_id)]
        ELSE [r.st EXCEPT !.failed = Append(@, info.service_id)]

\* APIMapper._register_engine_api: the registry is written, nothing else.
register_engine_api(reg, sid, api, normalized_prefix) ==
    LET full_path == normalized_prefix \o normalize_path(api.path)
        method == upper(api.method)
    IN  IF check_path_conflict(reg, full_path, {method}) THEN reg
        ELSE Put(reg, full_path, [service_id |-> sid, methods |-> {method}])

RECURSIVE register_engine_apis(_, _, _, _)
register_engine_apis(reg, sid, apis, normalized_prefix) ==
    IF apis = <<>> THEN reg
    ELSE register_engine_apis(register_engine_api(reg, sid, Head(apis), normalized_prefix),
                              sid, Tail(apis), normalized_prefix)

\* A mapper that would treat an engine as it treats a business service: the
\* declared routes are added to the engine's router and the router is included
\* in the main router.
map_engine_service_mounted(st, info) ==
    LET sid == info.service_id
        normalized_prefix == normalize_path(ENGINE_API_PREFIX(sid))
        routes == {Route(sid, normalized_prefix \o normalize_path(info.apis[i].path),
                         {upper(info.apis[i].method)}) : i \in 1..Len(info.apis)}
    IN  [st EXCEPT !.routers = Put(st.routers, sid,
                                   [prefix |-> normalized_prefix, routes |-> routes]),
                   !.apiRegistry = register_engine_apis(st.apiRegistry, sid, info.apis,
                                                        normalized_prefix),
                   !.mainRouter = @ \cup routes,
                   !.success = Append(@, sid)]

\* APIMapper._map_engine_service: a router is created for the engine and left
\* empty and unmounted; the apis go to the registry.
map_engine_service(st, info) ==
    LET sid == info.service_id
        normalized_prefix == normalize_path(ENGINE_API_PREFIX(sid))
    IN  [st EXCEPT !.routers = create_router(st.routers, sid, normalized_prefix),
                   !.apiRegistry = register_engine_apis(st.apiRegistry, sid, info.apis,
                                                        normalized_prefix),
                   !.success = Append(@, sid)]

RECURSIVE map_services(_, _)
map_services(st, svcs) ==
    IF svcs = <<>> THEN st
    ELSE map_services(IF Head(svcs).type = "business"
                      THEN map_business_service(st, Head(svcs))
                      ELSE map_engine_service(st, Head(svcs)),
                      Tail(svcs))

MapState(rs, mr, reg) ==
    [routers |-> rs, mainRouter |-> mr, apiRegistry |-> reg,
     success |-> <<>>, failed |-> <<>>]

NoMapResult == [services |-> <<>>, success |-> <<>>, failed |-> <<>>]

StoreMapState(st, svcs) ==
    /\ routers' = st.routers
    /\ mainRouter' = st.mainRouter
    /\ apiRegistry' = st.apiRegistry
    /\ mapResult' = [services |-> svcs, success |-> st.success, failed |-> st.failed]

\* clear_apis leaving the api registry as it was.
ClearedState_keeping_registry == MapState(EmptyMap, {}, apiRegistry)

\* What clear_apis leaves: no router, a new main router, an empty registry.
ClearedState == MapState(EmptyMap, {}, EmptyMap)

\* APIMapper.map_all_apis.
map_all_apis(svcs) ==
    /\ StoreMapState(map_services(MapState(routers, mainRouter, apiRegistry), svcs), svcs)
    /\ UNCHANGED <<appRoutes, accepted>>
    /\ UNCHANGED <<gwVars, auxVars>>

\* APIMapper.clear_apis.
clear_apis ==
    /\ routers' = ClearedState.routers
    /\ mainRouter' = ClearedState.mainRouter
    /\ apiRegistry' = ClearedState.apiRegistry
    /\ accepted' = <<>>
    /\ mapResult' = NoMapResult
    /\ UNCHANGED appRoutes
    /\ UNCHANGED <<gwVars, auxVars>>

\* LinkGateway.map_apis: clear_apis, map_all_apis over the registry's list,
\* then the main router is included in the application.
map_apis(svcs) ==
    /\ LET st == map_services(ClearedState, svcs)
       IN  /\ StoreMapState(st, svcs)
           /\ appRoutes' = appRoutes \cup st.mainRouter
    /\ accepted' = <<>>
    /\ UNCHANGED <<gwVars, auxVars>>

\* The service lists of the recorded runs: the two business services that
\* declare the same route and the engine.
RemapDescs == {s \in ServiceDescs : s.type = "engine" \/ s.dir \in {"b1", "b2"}}
RemapLists == UNION {[1..n -> RemapDescs] : n \in 0..MaxServices}

\* LinkGateway.map_apis, the run recorded: what map_all_apis returned and the
\* tables it left, for the first run and for the latest.
map_apis_recorded(svcs) ==
    /\ remapLog.count < MaxRuns
    /\ LET st == map_services(ClearedState, svcs)
           run == [services |-> svcs, success |-> st.success, failed |-> st.failed,
                   routers |-> st.routers, mainRouter |-> st.mainRouter,
                   apiRegistry |-> st.apiRegistry]
       IN  /\ StoreMapState(st, svcs)
           /\ appRoutes' = appRoutes \cup st.mainRouter
           /\ remapLog' = [count |-> remapLog.count + 1,
                           first |-> IF remapLog.count = 0 THEN run ELSE remapLog.first,
                           last |-> run]
    /\ accepted' = <<>>
    /\ UNCHANGED <<gwVars, fsMeta, disc, manifest, verdict, extVars>>

\* The routes LinkGateway.__init__ puts on the application: the default routes
\* and the Service Proxy's route, the one whose handler calls an engine.
DefaultPaths ==
    {<<Sep>>, <<Sep, "health">>, <<Sep, "services">>, <<Sep, "services", Sep, "{service_id}">>,
     <<Sep, "services", Sep, "{service_id}", Sep, "health">>,
     <<Sep, "services", Sep, "reload">>, <<Sep, "apis">>, <<Sep, "api-docs">>,
     <<Sep, "routes">>, <<Sep, "interaction-rule">>}
ProxyPath == <<Sep, "internal", Sep, "proxy", Sep, "{engine_id}">>
GatewayRoutes ==
    {Route("gateway", p, IF p = <<Sep, "services", Sep, "reload">> THEN {"POST"} ELSE {"GET"}) :
         p \in DefaultPaths}
        \cup {Route("gateway", ProxyPath, {"GET", "POST", "PUT", "DELETE", "PATCH"})}

\* Whether the handler of a route of the application calls an engine's
\* handle_request: of the gateway's own handlers only proxy_request does.
InvokesEngine(r) == r.owner = "gateway" /\ r.path = ProxyPath

----------------------------------------------------------------------------
\* The plugin pipeline (LinkGateway/plugin.py).

\* The plugins/ tree in the order _scan_plugin_files lists it, the Plugin
\* subclass each file defines and the dependencies its __init__ declares.
\* f1 and f3 define classes of the same name.
PluginFileSeq == <<"f1", "f2", "f3", "f4">>
PluginFiles == {PluginFileSeq[i] : i \in 1..Len(PluginFileSeq)}
PluginClass ==
    [f \in PluginFiles |->
        CASE f = "f1" -> "A" [] f = "f2" -> "B" [] f = "f3" -> "A" [] OTHER -> "C"]
PluginNames == {PluginClass[f] : f \in PluginFiles}
PluginDeps == [f \in PluginFiles |-> IF f = "f2" THEN {"A"} ELSE {}]

\* What a plugin's on_* methods do: return None, return a result, or raise.
HookBehaviours == {"none", "value", "raise"}

\* Plugin.__init__: status initialized.  get_name() is the class name.
\* faulty says whether the class's initialize fails whatever the table holds
\* (the file's current text decides; see load_plugin_from_file).
Plugin_init(id, f) ==
    [id |-> id, name |-> PluginClass[f], file |-> f, status |-> "initialized",
     dependencies |-> PluginDeps[f], faulty |-> FALSE]

\* One step of the last operation of the manager.
Ev(ev, id, file, from, to) ==
    [ev |-> ev, id |-> id, file |-> file, from |-> from, to |-> to, seen |-> {}]

\* PluginManager.plugins is a dict: a sequence of instances in insertion
\* order, at most one per key.  The position of a key, 0 when it is absent.
IndexOf(plugins, name) ==
    IF \E i \in 1..Len(plugins) : plugins[i].name = name
    THEN CHOOSE i \in 1..Len(plugins) : plugins[i].name = name
    ELSE 0

RemoveAt(s, i) == SubSeq(s, 1, i - 1) \o SubSeq(s, i + 1, Len(s))

\* Plugin._check_dependencies against PluginManager.plugins.
check_dependencies(plugins, self) ==
    \A dep_name \in self.dependencies :
        /\ IndexOf(plugins, dep_name) # 0
        /\ plugins[IndexOf(plugins, dep_name)].status = "running"

\* What the table holds for each declared dependency when initialize runs.
DepsSeen(plugins, self) ==
    {[name |-> d,
      status |-> IF IndexOf(plugins, d) = 0 THEN "missing"
                 ELSE plugins[IndexOf(plugins, d)].status] : d \in self.dependencies}

Plugin_initialize_unchecked(plugins, self) == "running"

\* Plugin.initialize: the status it leaves.
Plugin_initialize(plugins, self) ==
    IF ~self.faulty /\ check_dependencies(plugins, self) THEN "running" ELSE "error"

InitializeEv(plugins, self, from, to) ==
    [Ev("initialize", self.id, self.file, from, to) EXCEPT !.seen = DepsSeen(plugins, self)]

\* Plugin.shutdown on the instance at position i of the table.
Plugin_shutdown(p, i) ==
    [p EXCEPT !.plugins[i].status = "stopped",
              !.events = Append(@, Ev("shutdown", p.plugins[i].id, p.plugins[i].file,
                                      p.plugins[i].status, "stopped"))]

handle_old_plugin_no_shutdown(p, plugin, is_reload) ==
    LET i == IndexOf(p.plugins, plugin.name)
    IN  IF i = 0 THEN p
        ELSE IF is_reload
        THEN [p EXCEPT !.plugins = RemoveAt(@, i)]
        ELSE p

\* PluginManager._handle_old_plugin: a reload shuts the old instance down and
\* deletes its key, a load shuts it down and leaves it in the table.
handle_old_plugin(p, plugin, is_reload) ==
    LET i == IndexOf(p.plugins, plugin.name)
    IN  IF i = 0 THEN p
        ELSE IF is_reload
        THEN [Plugin_shutdown(p, i) EXCEPT !.plugins = RemoveAt(@, i)]
        ELSE Plugin_shutdown(p, i)

\* PluginManager._register_plugin: plugins[name] = plugin keeps the position
\* of a key that is present; the file's current mtime is recorded.
register_plugin(p, plugin, f) ==
    LET i == IndexOf(p.plugins, plugin.name)
    IN  [p EXCEPT !.plugins = IF i = 0 THEN Append(@, plugin) ELSE [@ EXCEPT ![i] = plugin],
                  !.plugin_mod_times = Put(@, f, p.fs[f].mtime),
                  !.events = Append(@, Ev("register", plugin.id, f, "none", "none"))]

\* PluginManager._load_plugin_from_file.
load_plugin_from_file(p, f, is_reload) ==
    LET plugin == [Plugin_init(p.ctr + 1, f) EXCEPT !.faulty = f \in p.faulty]
        p0 == [p EXCEPT !.ctr = @ + 1,
                        !.events = Append(@, Ev("import", plugin.id, f, "none", "initialized"))]
        p1 == handle_old_plugin(p0, plugin, is_reload)
        st == Plugin_initialize(p1.plugins, plugin)
        p2 == [p1 EXCEPT !.events = Append(@, InitializeEv(p1.plugins, plugin, "initialized", st))]
    IN  IF st # "running"
        THEN [p2 EXCEPT !.failed = Append(@, f)]
        ELSE [register_plugin(p2, [plugin EXCEPT !.status = st], f)
                 EXCEPT !.success = Append(@, f)]

\* PluginManager._load_plugins_from_files over the files the scan found, from
\* position i on.
RECURSIVE load_plugins_from_files(_, _, _)
load_plugins_from_files(p, i, is_reload) ==
    IF i > Len(PluginFileSeq) THEN p
    ELSE LET f == PluginFileSeq[i]
         IN  IF ~p.fs[f].present
             THEN load_plugins_from_files(p, i + 1, is_reload)
             ELSE load_plugins_from_files(load_plugin_from_file(p, f, is_reload),
                                          i + 1, is_reload)

\* PluginManager._hot_reload_plugins_from_files: a file without a recorded
\* mtime is loaded, a file whose mtime differs is reloaded, others are skipped.
RECURSIVE hot_reload_plugins_from_files(_, _)
hot_reload_plugins_from_files(p, i) ==
    IF i > Len(PluginFileSeq) THEN p
    ELSE LET f == PluginFileSeq[i]
         IN  IF ~p.fs[f].present
             THEN hot_reload_plugins_from_files(p, i + 1)
             ELSE IF f \notin DOMAIN p.plugin_mod_times
             THEN hot_reload_plugins_from_files(load_plugin_from_file(p, f, FALSE), i + 1)
             ELSE IF p.fs[f].mtime # p.plugin_mod_times[f]
             THEN hot_reload_plugins_from_files(load_plugin_from_file(p, f, TRUE), i + 1)
             ELSE hot_reload_plugins_from_files(p, i + 1)

\* PluginManager.shutdown_plugins: every plugin is shut down, then the table
\* and the recorded mtimes are cleared.
RECURSIVE shutdown_each(_, _)
shutdown_each(p, i) ==
    IF i > Len(p.plugins) THEN p ELSE shutdown_each(Plugin_shutdown(p, i), i + 1)

shutdown_plugins_impl(p) ==
    [shutdown_each(p, 1) EXCEPT !.plugins = <<>>, !.plugin_mod_times = EmptyMap]

\* The hooks.  on_request_incoming, on_route_matching and on_response_outgoing
\* return a result the manager looks at; the other two return nothing.
Hooks == {"request_incoming", "service_calling_engine", "engine_responding",
          "route_matching", "response_outgoing"}
ReturningHooks == {"request_incoming", "route_matching", "response_outgoing"}

\* What a call of plugin.on_<hook> does: the plugin's behaviour, except that
\* the two hooks without a result return None where others return a result.
on_hook(p, plugin, hook) ==
    CASE p.beh[plugin.name] = "raise" -> [kind |-> "raise", value |-> "None"]
      [] p.beh[plugin.name] = "value" /\ hook \in ReturningHooks ->
             [kind |-> "return", value |-> plugin.name]
      [] OTHER -> [kind |-> "return", value |-> "None"]

Notified(hook, invoked, outcome, ret) ==
    [hook |-> hook, invoked |-> invoked, outcome |-> outcome, ret |-> ret]

RECURSIVE notify_loop_no_short_circuit(_, _, _, _)
notify_loop_no_short_circuit(p, i, hook, invoked) ==
    IF i > Len(p.plugins)
    THEN Notified(hook, invoked, "returned", "None")
    ELSE notify_loop_no_short_circuit(p, i + 1, hook, Append(invoked, p.plugins[i].id))

RECURSIVE notify_loop_propagating(_, _, _, _)
notify_loop_propagating(p, i, hook, invoked) ==
    IF i > Len(p.plugins)
    THEN Notified(hook, invoked, "returned", "None")
    ELSE LET plugin == p.plugins[i]
             seen == Append(invoked, plugin.id)
             r == on_hook(p, plugin, hook)
         IN  IF r.kind = "raise"
             THEN Notified(hook, seen, "raised", "None")
             ELSE IF r.value # "None"
             THEN Notified(hook, seen, "returned", r.value)
             ELSE notify_loop_propagating(p, i + 1, hook, seen)

\* The loop of a notify_* method from position i of plugins.values() on: the
\* exception of a raising plugin is caught and logged and the loop goes on,
\* a result that is not None is returned at once.
RECURSIVE notify_loop(_, _, _, _)
notify_loop(p, i, hook, invoked) ==
    IF i > Len(p.plugins)
    THEN Notified(hook, invoked, "returned", "None")
    ELSE LET plugin == p.plugins[i]
             seen == Append(invoked, plugin.id)
             r == on_hook(p, plugin, hook)
         IN  IF r.kind = "raise"
             THEN notify_loop(p, i + 1, hook, seen)
             ELSE IF r.value # "None"
             THEN Notified(hook, seen, "returned", r.value)
             ELSE notify_loop(p, i + 1, hook, seen)

NoHook == Notified("none", <<>>, "none", "None")

\* The start of an operation of the manager: what the last one did is dropped.
Begin(p, op) ==
    [p EXCEPT !.op = op, !.events = <<>>, !.success = <<>>, !.failed = <<>>,
              !.notified = NoHook]

NoPlugins ==
    [fs |-> [f \in PluginFiles |-> [present |-> FALSE, mtime |-> 0]],
     beh |-> [n \in PluginNames |-> "none"],
     plugins |-> <<>>, plugin_mod_times |-> EmptyMap, ctr |-> 0, faulty |-> {},
     op |-> "none", events |-> <<>>, success |-> <<>>, failed |-> <<>>,
     notified |-> NoHook]

PluginUnchanged ==
    UNCHANGED <<gwVars, mapVars, fsMeta, disc, manifest, verdict, remapLog, dbl, oc,
                boot, reqs>>

\* PluginManager.load_plugins.
load_plugins ==
    /\ pm.ctr < MaxInstances
    /\ pm' = load_plugins_from_files(Begin(pm, "load_plugins"), 1, FALSE)
    /\ PluginUnchanged

\* PluginManager.hot_reload_plugins.
hot_reload_plugins ==
    /\ pm.ctr < MaxInstances
    /\ pm' = hot_reload_plugins_from_files(Begin(pm, "hot_reload_plugins"), 1)
    /\ PluginUnchanged

\* PluginManager.shutdown_plugins.
shutdown_plugins ==
    /\ pm' = shutdown_plugins_impl(Begin(pm, "shutdown_plugins"))
    /\ PluginUnchanged

\* PluginManager.reload_plugins: shutdown_plugins, then load_plugins.
reload_plugins ==
    /\ pm.ctr < MaxInstances
    /\ pm' = load_plugins_from_files(
                 shutdown_plugins_impl(Begin(pm, "reload_plugins")), 1, FALSE)
    /\ PluginUnchanged

\* Plugin.reload on a plugin of the table: shutdown, then initialize.
Plugin_reload(name) ==
    LET i == IndexOf(pm.plugins, name)
        p1 == Plugin_shutdown(Begin(pm, "Plugin.reload"), i)
        st == Plugin_initialize(p1.plugins, p1.plugins[i])
    IN  /\ i # 0
        /\ pm' = [p1 EXCEPT !.plugins[i].status = st,
                            !.events = Append(@, InitializeEv(p1.plugins, p1.plugins[i],
                                                              "stopped", st))]
        /\ PluginUnchanged

\* The plugins/ tree changes: a file is written for the first time or again.
write_file(f) ==
    /\ pm.fs[f].mtime < MaxMtime
    /\ pm' = [Begin(pm, "write_file") EXCEPT !.fs[f] = [present |-> TRUE, mtime |-> @.mtime + 1],
                                         !.faulty = @ \ {f}]
    /\ PluginUnchanged

\* A file is written with a class whose initialize fails: it raises, or an
\* override returns False.
write_faulty_file(f) ==
    /\ pm.fs[f].mtime < MaxMtime
    /\ pm' = [Begin(pm, "write_file") EXCEPT !.fs[f] = [present |-> TRUE, mtime |-> @.mtime + 1],
                                         !.faulty = @ \cup {f}]
    /\ PluginUnchanged

\* A notify_* method of the manager.
notify(hook) ==
    /\ pm' = [Begin(pm, "notify") EXCEPT !.notified = notify_loop(pm, 1, hook, <<>>)]
    /\ PluginUnchanged

----------------------------------------------------------------------------
\* The Database Link Manager (LinkGateway/db_link.py).

\* The service ids the manager is called with; "" is the empty id.
DbServices == {"s1", "s2"}

\* The db_config types create_connection is handed: sqlite, a server whose
\* connection test passes, one whose test fails, an unsupported type, none.
DbTypes == {"sqlite", "mysql_up", "mysql_down", "oracle", "none"}

\* What session.execute("SELECT 1") and SessionLocal() do.
ProbeOutcomes == {"ok", "raise"}
CreateOutcomes == {"ok", "raise"}

DbRet(kind, session) == [kind |-> kind, session |-> session]

\* What the last operation of the manager did: the sessions it closed and
\* the engines whose dispose() it called.
DbOp(op, sid) ==
    [op |-> op, sid |-> sid, ret |-> DbRet("none", 0), probed |-> "none",
     created |-> "none", closed |-> {}, disposed |-> {}, failed |-> {}]

\* DatabaseLinkManager.__init__.  origin records, for every session made so
\* far, the engine whose SessionLocal made it.
NoLinks == [connections |-> EmptyMap, sessions |-> EmptyMap, ctr |-> 0,
            origin |-> EmptyMap, last |-> DbOp("none", "none")]

StartDb(d, op, sid) == [d EXCEPT !.last = DbOp(op, sid)]

\* DatabaseLinkManager.close_session: the session is closed, an error of
\* close() is logged, and the entry is deleted.
close_session_impl(d, sid) ==
    IF sid \in DOMAIN d.sessions
    THEN [d EXCEPT !.sessions = Drop(@, sid),
                   !.last.closed = @ \cup {d.sessions[sid]}]
    ELSE d

reuse_existing_session_unprobed(d, sid, probe) ==
    [reuse |-> sid \in DOMAIN d.sessions, d |-> d]

\* DatabaseLinkManager._reuse_existing_session: a cached session that answers
\* the probe is reused, one that does not is closed and dropped.
reuse_existing_session(d, sid, probe) ==
    IF sid \notin DOMAIN d.sessions THEN [reuse |-> FALSE, d |-> d]
    ELSE IF probe = "ok" THEN [reuse |-> TRUE, d |-> d]
    ELSE [reuse |-> FALSE, d |-> close_session_impl(d, sid)]

\* DatabaseLinkManager._create_new_session: SessionLocal() is not guarded.
create_new_session(d, sid, create) ==
    IF create = "raise"
    THEN [d EXCEPT !.last.created = create, !.last.ret = DbRet("raised", 0)]
    ELSE [d EXCEPT !.sessions = Put(@, sid, d.ctr + 1), !.ctr = @ + 1,
                   !.origin = Put(@, d.ctr + 1, d.connections[sid]),
                   !.last.created = create, !.last.ret = DbRet("session", d.ctr + 1)]

\* DatabaseLinkManager.get_session.
get_session_impl(d, sid, probe, create) ==
    LET d0 == [StartDb(d, "get_session", sid) EXCEPT
                  !.last.probed = IF sid \in DOMAIN d.sessions THEN probe ELSE "none"]
        r == reuse_existing_session(d0, sid, probe)
    IN  IF sid = "" THEN [d0 EXCEPT !.last.ret = DbRet("None", 0)]
        ELSE IF r.reuse THEN [r.d EXCEPT !.last.ret = DbRet("session", r.d.sessions[sid])]
        ELSE IF sid \notin DOMAIN r.d.connections
        THEN [r.d EXCEPT !.last.ret = DbRet("None", 0)]
        ELSE create_new_session(r.d, sid, create)

\* DatabaseLinkManager.close_all_sessions.
RECURSIVE close_all_sessions_impl(_)
close_all_sessions_impl(d) ==
    IF DOMAIN d.sessions = {} THEN d
    ELSE close_all_sessions_impl(close_session_impl(d, CHOOSE s \in DOMAIN d.sessions : TRUE))

\* The loop of disconnect_all over the connections left to release; failing
\* holds the services whose engine.dispose() raises.
RECURSIVE dispose_each_abort(_, _, _)
dispose_each_abort(d, todo, failing) ==
    IF todo = {} THEN d
    ELSE LET sid == CHOOSE s \in todo : TRUE
             d1 == [d EXCEPT !.last.disposed = @ \cup {d.connections[sid]}]
         IN  IF sid \in failing
             THEN [d1 EXCEPT !.last.failed = @ \cup {d.connections[sid]}]
             ELSE dispose_each_abort(d1, todo \ {sid}, failing)

RECURSIVE dispose_each(_, _, _)
dispose_each(d, todo, failing) ==
    IF todo = {} THEN d
    ELSE LET sid == CHOOSE s \in todo : TRUE
         IN  dispose_each([d EXCEPT !.last.disposed = @ \cup {d.connections[sid]},
                                    !.last.failed = IF sid \in failing
                                                    THEN @ \cup {d.connections[sid]} ELSE @],
                          todo \ {sid}, failing)

DbUnchanged ==
    UNCHANGED <<gwVars, mapVars, fsMeta, disc, manifest, verdict, remapLog, pm, oc,
                boot, reqs>>

\* DatabaseLinkManager.create_connection: a valid configuration stores a new
\* engine under the service id, whatever was stored there before.
create_connection(sid, db_type) ==
    /\ dbl.ctr < MaxHandles
    /\ dbl' = LET d0 == StartDb(dbl, "create_connection", sid)
              IN  IF sid = "" \/ db_type \notin {"sqlite", "mysql_up"}
                  THEN [d0 EXCEPT !.last.ret = DbRet("False", 0)]
                  ELSE [d0 EXCEPT !.connections = Put(@, sid, dbl.ctr + 1),
                                  !.ctr = @ + 1,
                                  !.last.ret = DbRet("True", 0)]
    /\ DbUnchanged

get_session(sid, probe, create) ==
    /\ dbl.ctr < MaxHandles
    /\ dbl' = get_session_impl(dbl, sid, probe, create)
    /\ DbUnchanged

close_session(sid) ==
    /\ dbl' = [close_session_impl(StartDb(dbl, "close_session", sid), sid)
                  EXCEPT !.last.ret = DbRet("True", 0)]
    /\ DbUnchanged

close_all_sessions ==
    /\ dbl' = [close_all_sessions_impl(StartDb(dbl, "close_all_sessions", "none"))
                  EXCEPT !.last.ret = DbRet("True", 0)]
    /\ DbUnchanged

\* DatabaseLinkManager.disconnect.
disconnect(sid) ==
    /\ dbl' = LET d0 == StartDb(dbl, "disconnect", sid)
                  d1 == close_session_impl(d0, sid)
              IN  IF sid = "" THEN [d0 EXCEPT !.last.ret = DbRet("False", 0)]
                  ELSE IF sid \in DOMAIN d1.connections
                  THEN [d1 EXCEPT !.connections = Drop(@, sid),
                                  !.last.disposed = {d1.connections[sid]},
                                  !.last.ret = DbRet("True", 0)]
                  ELSE [d1 EXCEPT !.last.ret = DbRet("True", 0)]
    /\ DbUnchanged

\* DatabaseLinkManager.disconnect_all: every session is closed, dispose() is
\* called on every engine with its error logged, and the table is cleared.
disconnect_all(failing) ==
    /\ dbl' = LET d0 == close_all_sessions_impl(StartDb(dbl, "disconnect_all", "none"))
                  d1 == dispose_each(d0, DOMAIN d0.connections, failing)
              IN  [d1 EXCEPT !.connections = EmptyMap, !.last.ret = DbRet("True", 0)]
    /\ DbUnchanged

----------------------------------------------------------------------------
\* The Outer Communicator (LinkGateway/outer_comm.py).

NetworkEngines == {"n1", "n2"}

\* The engine_info a network engine is registered with: with a base_url or
\* without one.
EngineInfos == {[base_url |-> TRUE], [base_url |-> FALSE]}

\* What the one client.post(url, ...) under the client's timeout of 30 s
\* does: a 200 with a JSON body, a 200 whose body is not JSON, another status
\* code, httpx.TimeoutException, another httpx.RequestError.
HttpOutcomes == {"200", "200_not_json", "503", "timeout", "transport_error"}

post_with_retry(outcome) ==
    [requests |-> IF outcome \in {"timeout", "transport_error"} THEN 2 ELSE 1,
     outcome |-> outcome]

\* await self.client.post(...): one request.
post_once(outcome) == [requests |-> 1, outcome |-> outcome]

OuterOp(op, target, requests, outcome, ret) ==
    [op |-> op, target |-> target, requests |-> requests, outcome |-> outcome, ret |-> ret]

\* OuterCommunicator.__init__.
NoOuter == [network_engines |-> EmptyMap, ctr |-> 0,
            last |-> OuterOp("none", "none", 0, "none", NoRet)]

OuterUnchanged ==
    UNCHANGED <<gwVars, mapVars, fsMeta, disc, manifest, verdict, remapLog, pm, dbl,
                boot, reqs>>

\* OuterCommunicator.register_network_engine.
register_network_engine(id, info) ==
    /\ oc' = [oc EXCEPT !.network_engines = Put(@, id, info),
                        !.last = OuterOp("register_network_engine", id, 0, "none", Plain("true"))]
    /\ OuterUnchanged

\* OuterCommunicator.unregister_network_engine.
unregister_network_engine(id) ==
    /\ oc' = [oc EXCEPT !.network_engines = Drop(@, id),
                        !.last = OuterOp("unregister_network_engine", id, 0, "none",
                                         Plain(IF id \in DOMAIN oc.network_engines
                                               THEN "true" ELSE "false"))]
    /\ OuterUnchanged

\* OuterCommunicator.send_request.  Only httpx.RequestError is caught: a body
\* that is not JSON raises out of response.json().
outer_send_request(target, outcome) ==
    /\ IF target \notin DOMAIN oc.network_engines \/ ~oc.network_engines[target].base_url
       THEN oc' = [oc EXCEPT !.last = OuterOp("send_request", target, 0, "none", NoneRet)]
       ELSE /\ oc.ctr < MaxReq
            /\ LET r == post_once(outcome)
                   id == oc.ctr + 1
               IN  oc' = [oc EXCEPT
                            !.ctr = id,
                            !.last = OuterOp("send_request", target, r.requests, r.outcome,
                                CASE r.outcome = "200" -> Plain("remote")
                                  [] r.outcome = "200_not_json" -> Raised
                                  [] r.outcome = "503" -> Response_error(id, 503)
                                  [] OTHER -> Response_error(id, 500))]
    /\ OuterUnchanged

----------------------------------------------------------------------------
\* DatabaseLinkManager.get_db, the generator a route depends on: the request
\* gets a session from get_session, uses it while the generator is suspended
\* at its yield, and close_session runs when the request is over.  reqs maps
\* each request that is between the two to the session it was handed.

Requests == {"r1", "r2"}

\* No request holds a session.
NoReqs == EmptyMap

\* get_db up to the yield; without a session it raises.
get_db_enter(r, sid, probe, create) ==
    /\ r \notin DOMAIN reqs
    /\ dbl.ctr < MaxHandles
    /\ dbl' = get_session_impl(dbl, sid, probe, create)
    /\ reqs' = IF dbl'.last.ret.kind = "session"
               THEN Put(reqs, r, [sid |-> sid, session |-> dbl'.last.ret.session])
               ELSE reqs
    /\ UNCHANGED <<gwVars, mapVars, fsMeta, disc, manifest, verdict, remapLog,
                   pm, oc, boot>>

\* The finally clause of get_db: close_session(service_id).
get_db_exit(r) ==
    /\ r \in DOMAIN reqs
    /\ dbl' = [close_session_impl(StartDb(dbl, "close_session", reqs[r].sid), reqs[r].sid)
                  EXCEPT !.last.ret = DbRet("True", 0)]
    /\ reqs' = Drop(reqs, r)
    /\ UNCHANGED <<gwVars, mapVars, fsMeta, disc, manifest, verdict, remapLog,
                   pm, oc, boot>>

----------------------------------------------------------------------------
\* LinkGateway.start and LinkGateway.shutdown (LinkGateway/gateway.py).
\* boot.pc says where start() is, boot.steps which calls it has made so far.

BootSteps == <<"check_port", "load_plugins", "discover_services", "map_apis", "serve">>

NoBoot == [pc |-> "idle", steps |-> <<>>]

\* start() with the except clause left out: the exception leaves start() at
\* once.
start_next_unguarded(pc, raised) ==
    IF raised THEN "raised"
    ELSE CASE pc = "idle" -> "port_free"
           [] pc = "port_free" -> "plugins_loaded"
           [] pc = "plugins_loaded" -> "discovered"
           [] pc = "discovered" -> "mapped"
           [] pc = "mapped" -> "serving"
           [] OTHER -> "returned"

\* The control flow of start(): the statements of the try block one after
\* the other, and the except clause as soon as one of them raises.
start_next(pc, raised) ==
    IF raised THEN "except"
    ELSE CASE pc = "idle" -> "port_free"
           [] pc = "port_free" -> "plugins_loaded"
           [] pc = "plugins_loaded" -> "discovered"
           [] pc = "discovered" -> "mapped"
           [] pc = "mapped" -> "serving"
           [] OTHER -> "returned"

StartStep(b, name, raised) ==
    [pc |-> start_next(b.pc, raised), steps |-> Append(b.steps, name)]

\* _check_port_available; an occupied port raises RuntimeError.
start_check_port(free) ==
    /\ boot.pc = "idle"
    /\ boot' = StartStep(boot, "check_port", ~free)
    /\ UNCHANGED <<gwVars, mapVars, fsMeta, disc, manifest, verdict, remapLog,
                   pm, dbl, oc, reqs>>

\* plugin_manager.load_plugins(): what a plugin file raises is caught per file.
start_load_plugins ==
    /\ boot.pc = "port_free"
    /\ pm' = load_plugins_from_files(Begin(pm, "load_plugins"), 1, FALSE)
    /\ boot' = StartStep(boot, "load_plugins", FALSE)
    /\ UNCHANGED <<gwVars, mapVars, fsMeta, disc, manifest, verdict, remapLog,
                   dbl, oc, reqs>>

\* _create_business_db_connections: a connection for every business the pass
\* reported valid.
RECURSIVE create_business_db_connections(_, _)
create_business_db_connections(d, bres) ==
    IF bres = <<>> THEN d
    ELSE create_business_db_connections(
             IF Head(bres).status = "valid"
             THEN [d EXCEPT !.connections = Put(@, Head(bres).service_id, d.ctr + 1),
                            !.ctr = @ + 1]
             ELSE d,
             Tail(bres))

\* self.discover_services(): the registry's pass, the businesses' database
\* connections and the registration with the Inner Communicator; it catches
\* every exception.
start_discover_services ==
    /\ boot.pc = "plugins_loaded"
    /\ Len(passLog) < MaxPasses
    /\ LET st == registry_discover_services
           ids == DOMAIN st.engines
       IN  /\ StoreTables(st)
           /\ inst' = [u \in DOMAIN st.inst |->
                         IF u \in ids
                         THEN [st.inst[u] EXCEPT !.allow_direct_call = TRUE]
                         ELSE st.inst[u]]
           /\ icEngines' = [x \in (DOMAIN icEngines) \cup ids |->
                              IF x \in ids THEN st.engines[x] ELSE icEngines[x]]
           /\ dbl' = create_business_db_connections(dbl, st.bres)
    /\ boot' = StartStep(boot, "discover_services", FALSE)
    /\ UNCHANGED <<fsEngines, fsBiz, queue, reqCtr, lastOp>>
    /\ UNCHANGED <<mapVars, fsMeta, disc, manifest, verdict, remapLog, pm, oc, reqs>>

\* self.map_apis(): it catches every exception.
start_map_apis(svcs) ==
    /\ boot.pc = "discovered"
    /\ LET st == map_services(ClearedState, svcs)
       IN  /\ StoreMapState(st, svcs)
           /\ appRoutes' = appRoutes \cup st.mainRouter
    /\ accepted' = <<>>
    /\ boot' = StartStep(boot, "map_apis", FALSE)
    /\ UNCHANGED <<gwVars, fsMeta, disc, manifest, verdict, remapLog, pm, dbl, oc, reqs>>

\* uvicorn.run is entered, or importing and configuring uvicorn raises.
start_serve(raised) ==
    /\ boot.pc = "mapped"
    /\ boot' = StartStep(boot, "serve", raised)
    /\ UNCHANGED <<gwVars, mapVars, fsMeta, disc, manifest, verdict, remapLog,
                   pm, dbl, oc, reqs>>

\* uvicorn.run returns or raises.
start_serve_ends(raised) ==
    /\ boot.pc = "serving"
    /\ boot' = [boot EXCEPT !.pc = start_next(boot.pc, raised)]
    /\ UNCHANGED <<gwVars, mapVars, fsMeta, disc, manifest, verdict, remapLog,
                   pm, dbl, oc, reqs>>

\* The except clause of start(): shutdown(), first shutdown_plugins ...
start_shutdown_plugins ==
    /\ boot.pc = "except"
    /\ pm' = shutdown_plugins_impl(Begin(pm, "shutdown_plugins"))
    /\ boot' = [pc |-> "plugins_down", steps |-> Append(boot.steps, "shutdown_plugins")]
    /\ UNCHANGED <<gwVars, mapVars, fsMeta, disc, manifest, verdict, remapLog,
                   dbl, oc, reqs>>

\* ... then db_link.disconnect_all(), and the exception is raised again.
start_disconnect_all(failing) ==
    /\ boot.pc = "plugins_down"
    /\ dbl' = LET d0 == close_all_sessions_impl(StartDb(dbl, "disconnect_all", "none"))
                  d1 == dispose_each(d0, DOMAIN d0.connections, failing)
              IN  [d1 EXCEPT !.connections = EmptyMap, !.last.ret = DbRet("True", 0)]
    /\ boot' = [pc |-> "raised", steps |-> Append(boot.steps, "disconnect_all")]
    /\ UNCHANGED <<gwVars, mapVars, fsMeta, disc, manifest, verdict, remapLog,
                   pm, oc, reqs>>

----------------------------------------------------------------------------
\* The gateway specification: discovery and dispatch.

InitTables ==
    /\ engines = EmptyMap
    /\ services = EmptyMap
    /\ businesses = EmptyMap
    /\ db = EmptyMap
    /\ inst = EmptyMap
    /\ uuidCtr = 0
    /\ icEngines = EmptyMap
    /\ queue = <<>>
    /\ reqCtr = 0
    /\ passLog = <<>>
    /\ lastOp = NoOp

InitGateway ==
    /\ fsEngines \in [EngineDirs -> EngineStages]
    /\ fsBiz \in [BizDirs -> BizStages]
    /\ fsMeta \in MetaChoices
    /\ InitTables

InitMapper ==
    /\ routers = EmptyMap
    /\ mainRouter = {}
    /\ apiRegistry = EmptyMap
    /\ appRoutes = GatewayRoutes
    /\ accepted = <<>>
    /\ mapResult = NoMapResult

\* No engine pass in progress, nothing validated, map_apis not yet run.
IdleDisc == [pc |-> "idle", i |-> 0, worker |-> "none", bres |-> <<>>, eres |-> <<>>,
             abandoned |-> 0, gaveup |-> {}, late |-> {}]
NoManifest == [service_id |-> "absent", service_name |-> "absent", version |-> "absent",
               engine_type |-> "absent", database |-> "absent", apis |-> "absent"]
NoVerdict == [fn |-> "none", outcome |-> "none", valid |-> FALSE, reason |-> "none"]
NoRun == [services |-> <<>>, success |-> <<>>, failed |-> <<>>,
          routers |-> EmptyMap, mainRouter |-> {}, apiRegistry |-> EmptyMap]
NoRemap == [count |-> 0, first |-> NoRun, last |-> NoRun]

InitAux ==
    /\ pm = NoPlugins
    /\ dbl = NoLinks
    /\ oc = NoOuter
    /\ boot = NoBoot
    /\ reqs = NoReqs
    /\ disc = IdleDisc
    /\ verdict = NoVerdict
    /\ remapLog = NoRemap

Init == InitGateway /\ InitMapper /\ InitAux /\ manifest = NoManifest

\* The dispatch operations see an engine only through the tables a pass left
\* behind, so the dispatch specification starts from one stage per distinct
\* effect on those tables: started and registered (ok), registered without
\* having started (false; raise and timeout leave the same tables), and not
\* registered at all (loadraise).
DispatchStages == {"ok", "false", "loadraise"}

InitDispatch ==
    /\ Init
    /\ fsEngines \in [EngineDirs -> DispatchStages]
    /\ fsBiz \in [BizDirs -> {"valid"}]
    /\ fsMeta = DefaultMeta

\* The queue sees an engine only as registered with the communicator or not,
\* so the queue specification starts from an engine that starts (ok) and one
\* that cannot be instantiated (loadraise).
AsyncStages == {"ok", "loadraise"}

InitAsync ==
    /\ Init
    /\ fsEngines \in [EngineDirs -> AsyncStages]
    /\ fsBiz \in [BizDirs -> {"valid"}]
    /\ fsMeta = DefaultMeta

Discovery ==
    \/ discover_services
    \/ reload_services

Dispatch ==
    \/ \E c \in Callers, t \in Targets, a \in Actions : send_request(c, t, a)
    \/ \E t \in Targets, a \in Actions \cup {""} : proxy_request(t, a)
    \/ \E c \in Callers, u \in DOMAIN inst, a \in Actions : direct_call(c, u, a)

Async ==
    \/ \E c \in Callers, t \in Targets, a \in Actions : send_async_request(c, t, a)
    \/ \E c \in Callers : process_message_queue(c)

Broadcast == \E c \in Callers, a \in BroadcastActions : broadcast(c, a)

Next == Discovery

NextDispatch == Discovery \/ Dispatch

NextAsync == Discovery \/ Async

NextBroadcast == Discovery \/ Broadcast

Allowed == \E s \in KnownIds, t \in KnownIds : check_service_allowed(s, t)

NextAllowed == Discovery \/ Allowed

\* Discovery over every filesystem.
Spec == Init /\ [][Next]_vars

\* Discovery and the synchronous dispatch paths.
SpecDispatch == InitDispatch /\ [][NextDispatch]_vars

\* Discovery and the asynchronous queue.
SpecAsync == InitAsync /\ [][NextAsync]_vars

\* Discovery and broadcast.
SpecBroadcast == InitDispatch /\ [][NextBroadcast]_vars

\* Discovery and the interaction rule.
SpecAllowed == InitDispatch /\ [][NextAllowed]_vars

\* The validators, over every manifest.
InitValidate ==
    /\ fsEngines = [d \in EngineDirs |-> "ok"]
    /\ fsBiz = [d \in BizDirs |-> "valid"]
    /\ fsMeta = DefaultMeta
    /\ InitTables
    /\ InitMapper
    /\ InitAux
    /\ manifest \in Manifests

NextValidate ==
    \/ call_validate_service_json
    \/ call_validate_engine_json

SpecValidate == InitValidate /\ [][NextValidate]_vars

\* The API Mapper, over a filesystem the registry never reads.
InitMapping ==
    /\ Init
    /\ fsEngines = [d \in EngineDirs |-> "ok"]
    /\ fsBiz = [d \in BizDirs |-> "valid"]
    /\ fsMeta = DefaultMeta

NextRoutes ==
    \/ \E sid \in RouteOwners, p \in RawPaths, m \in MethodLists : add_api_route(sid, p, m)
    \/ clear_apis

NextMapper ==
    \/ \E svcs \in ServiceLists : map_all_apis(svcs)
    \/ clear_apis
    \/ \E svcs \in ServiceLists : map_apis(svcs)

\* Route registration through add_api_route (the gateway itself never calls
\* it: its mapper changes only through map_apis).
SpecRoutes == InitMapping /\ [][NextRoutes]_vars

\* Mapping passes over service lists.
\* The engine pass step by step.  The registry's thread keeps running, and a
\* worker whose start() returns is scheduled until it does.
StepStages == {"ok", "raise", "timeout", "badjson"}

InitStart ==
    /\ Init
    /\ fsEngines \in [EngineDirs -> StepStages]
    /\ fsBiz \in [BizDirs -> {"valid"}]
    /\ fsMeta = DefaultMeta

RegistryThread ==
    \/ next_engine
    \/ spawn_start_worker
    \/ join_returns
    \/ join_times_out
    \/ end_pass

NextStart ==
    \/ begin_pass
    \/ RegistryThread
    \/ worker_returns

SpecStart ==
    /\ InitStart
    /\ [][NextStart]_vars
    /\ WF_vars(RegistryThread)
    /\ WF_vars(worker_returns)

\* Repeated runs of map_apis.
NextRemap == \E svcs \in RemapLists : map_apis_recorded(svcs)

SpecRemap == InitMapping /\ [][NextRemap]_vars

SpecMapper == InitMapping /\ [][NextMapper]_vars

\* The plugin manager over every plugins/ tree: files are written, and the
\* manager loads, reloads and shuts down.
InitQuiet ==
    /\ fsEngines = [d \in EngineDirs |-> "ok"]
    /\ fsBiz = [d \in BizDirs |-> "valid"]
    /\ fsMeta = DefaultMeta
    /\ InitTables
    /\ InitMapper
    /\ disc = IdleDisc
    /\ verdict = NoVerdict
    /\ remapLog = NoRemap
    /\ manifest = NoManifest
    /\ boot = NoBoot
    /\ reqs = NoReqs

\* The files the lifecycle specification writes.
LifecycleFiles == {"f1", "f2", "f3"}

PluginTrees ==
    {[f \in PluginFiles |-> [present |-> f \in fs, mtime |-> IF f \in fs THEN 1 ELSE 0]] :
        fs \in SUBSET LifecycleFiles}

InitPlugins ==
    /\ InitQuiet
    /\ dbl = NoLinks
    /\ oc = NoOuter
    /\ pm \in {[NoPlugins EXCEPT !.fs = t] : t \in PluginTrees}

NextPlugins ==
    \/ load_plugins
    \/ hot_reload_plugins
    \/ reload_plugins
    \/ shutdown_plugins
    \/ \E n \in PluginNames : Plugin_reload(n)
    \/ \E f \in LifecycleFiles : write_file(f)

SpecPlugins == InitPlugins /\ [][NextPlugins]_vars

\* The hooks, over every behaviour of the plugins' on_* methods, with and
\* without the second file that defines class A.
HookTrees ==
    {[f \in PluginFiles |-> [present |-> f \in fs, mtime |-> IF f \in fs THEN 1 ELSE 0]] :
        fs \in {PluginFiles, PluginFiles \ {"f3"}}}

InitHooks ==
    /\ InitQuiet
    /\ dbl = NoLinks
    /\ oc = NoOuter
    /\ pm \in {[NoPlugins EXCEPT !.fs = t, !.beh = b] :
                  t \in HookTrees, b \in [PluginNames -> HookBehaviours]}

NextHooks ==
    \/ load_plugins
    \/ \E h \in Hooks : notify(h)

SpecHooks == InitHooks /\ [][NextHooks]_vars

\* The Database Link Manager on its own.
InitDb ==
    /\ InitQuiet
    /\ pm = NoPlugins
    /\ dbl = NoLinks
    /\ oc = NoOuter

NextDb ==
    \/ \E sid \in DbServices \cup {""}, t \in DbTypes : create_connection(sid, t)
    \/ \E sid \in DbServices \cup {""}, p \in ProbeOutcomes, c \in CreateOutcomes :
           get_session(sid, p, c)
    \/ \E sid \in DbServices : close_session(sid)
    \/ close_all_sessions
    \/ \E sid \in DbServices \cup {""} : disconnect(sid)
    \/ \E failing \in SUBSET DbServices : disconnect_all(failing)

SpecDb == InitDb /\ [][NextDb]_vars

\* The Outer Communicator on its own.
NextOuter ==
    \/ \E id \in NetworkEngines, info \in EngineInfos : register_network_engine(id, info)
    \/ \E id \in NetworkEngines : unregister_network_engine(id)
    \/ \E t \in NetworkEngines, o \in HttpOutcomes : outer_send_request(t, o)

SpecOuter == InitDb /\ [][NextOuter]_vars

\* Discovery and dispatch with plugins loaded.
InitHookedDispatch ==
    /\ fsEngines \in [EngineDirs -> AsyncStages]
    /\ fsBiz \in [BizDirs -> {"valid"}]
    /\ fsMeta = DefaultMeta
    /\ InitTables
    /\ InitMapper
    /\ disc = IdleDisc
    /\ verdict = NoVerdict
    /\ remapLog = NoRemap
    /\ manifest = NoManifest
    /\ boot = NoBoot
    /\ reqs = NoReqs
    /\ dbl = NoLinks
    /\ oc = NoOuter
    /\ pm \in {[NoPlugins EXCEPT !.fs = t] : t \in {x \in HookTrees : ~x["f3"].present}}

NextHookedDispatch ==
    \/ Discovery
    \/ Dispatch
    \/ load_plugins

SpecHookedDispatch == InitHookedDispatch /\ [][NextHookedDispatch]_vars

\* Requests that depend on get_db, one logical task each, over the services'
\* connections.
NextRequests ==
    \/ \E sid \in DbServices : create_connection(sid, "sqlite")
    \/ \E r \in Requests, sid \in DbServices, p \in ProbeOutcomes, c \in CreateOutcomes :
           get_db_enter(r, sid, p, c)
    \/ \E r \in Requests : get_db_exit(r)

SpecRequests == InitDb /\ [][NextRequests]_vars

\* Loads and hot reloads over trees in which files are rewritten with a class
\* whose initialize fails.
NextFaulty ==
    \/ load_plugins
    \/ hot_reload_plugins
    \/ \E f \in LifecycleFiles : write_faulty_file(f)
    \/ \E h \in Hooks : notify(h)

SpecFaulty == InitPlugins /\ [][NextFaulty]_vars

\* Passes over a services/ tree that loses directories.
NextVanish ==
    \/ Discovery
    \/ \E d \in BizDirs : remove_service_dir(d)

SpecVanish == InitDispatch /\ [][NextVanish]_vars

\* The engine pass step by step with the workers it left behind, and
\* requests sent through the Inner Communicator.
InitAbandoned ==
    /\ Init
    /\ fsEngines \in [EngineDirs -> {"ok", "timeout", "badjson"}]
    /\ fsBiz \in [BizDirs -> {"valid"}]
    /\ fsMeta = DefaultMeta

NextAbandoned ==
    \/ begin_pass
    \/ RegistryThread
    \/ worker_returns
    \/ \E u \in disc.late, ok \in BOOLEAN : abandoned_worker_returns(u, ok)
    \/ \E c \in Callers, t \in DOMAIN icEngines : send_request(c, t, "ping")

SpecAbandoned == InitAbandoned /\ [][NextAbandoned]_vars

\* Passes, reloads and unregistrations in any order.
NextResident ==
    \/ Discovery
    \/ \E sid \in DOMAIN services : unregister_service(sid)

SpecResident == InitDispatch /\ [][NextResident]_vars

\* One run of LinkGateway.start over the engine, service and plugin trees.
InitBoot ==
    /\ fsEngines \in [EngineDirs -> AsyncStages]
    /\ fsBiz \in [BizDirs -> {"valid", "nodb"}]
    /\ fsMeta = DefaultMeta
    /\ InitTables
    /\ InitMapper
    /\ disc = IdleDisc
    /\ verdict = NoVerdict
    /\ remapLog = NoRemap
    /\ manifest = NoManifest
    /\ pm \in {[NoPlugins EXCEPT !.fs = t] : t \in PluginTrees}
    /\ dbl = NoLinks
    /\ oc = NoOuter
    /\ boot = NoBoot
    /\ reqs = NoReqs

NextBoot ==
    \/ \E free \in BOOLEAN : start_check_port(free)
    \/ start_load_plugins
    \/ start_discover_services
    \/ \E svcs \in RemapLists : start_map_apis(svcs)
    \/ \E raised \in BOOLEAN : start_serve(raised)
    \/ \E raised \in BOOLEAN : start_serve_ends(raised)
    \/ start_shutdown_plugins
    \/ \E failing \in SUBSET DOMAIN dbl.connections : start_disconnect_all(failing)

SpecBoot == InitBoot /\ [][NextBoot]_vars

----------------------------------------------------------------------------
\* Properties of caller validation and dispatch.

\* C1: an invocation of an engine's handle_request that arrives through none
\* of forward_request, send_request, proxy_request, send_async_request is
\* rejected with PermissionError and _handle_request_impl does not run, also
\* after the gateway has discovered and registered engines.
C1_DirectCallRejected ==
    lastOp.op = "direct_call" =>
        /\ lastOp.ret.kind = "PermissionError"
        /\ lastOp.ran = {}

\* C2: an engine's _allow_direct_call is true only if its start succeeded
\* (status running) and it is registered as valid in the Descriptor Store.
C2_FlagImpliesStartedAndValid ==
    \A u \in DOMAIN inst :
        inst[u].allow_direct_call =>
            /\ inst[u].status = "running"
            /\ u \in DOMAIN db
            /\ db[u].status = "valid"

\* C3: a call whose source is an engine never reaches a target engine's
\* handler through the Inner Communicator, be it send_request or a drain of
\* the queue.
C3_EngineToEngineRefused ==
    (lastOp.caller = "engine"
        /\ lastOp.op \in {"send_request", "process_message_queue"}) =>
    lastOp.ran = {}

\* C4: InnerCommunicator.send_request returns exactly one ResultEnvelope for
\* every target, registered or not, whether the handler returns or raises.
C4_SendRequestAlwaysEnvelope ==
    lastOp.op = "send_request" =>
        /\ lastOp.ret.kind = "envelope"
        /\ lastOp.ret.status \in {"success", "error"}

----------------------------------------------------------------------------
\* Properties of discovery.

ManifestValid(stage) == stage \notin {"badjson", "baddb", "noname", "nofield"}

AllManifestsValid ==
    /\ \A d \in EngineDirs : ManifestValid(fsEngines[d])
    /\ \A d \in BizDirs : ManifestValid(fsBiz[d])

\* C8: with every manifest valid and the filesystem unchanged, the second of
\* two consecutive discovery passes yields the descriptor set of the first:
\* the same result entries, the same in-memory table, the same Descriptor
\* Store.
C8_DiscoverTwiceIdentical ==
    (AllManifestsValid /\ Len(passLog) >= 2) => passLog[2] = passLog[1]

\* C9: after discovery, an engine whose manifest declares service_id X and
\* whose start succeeded is resident in the registry's engine table under X.
C9_ResidentUnderManifestId ==
    \A d \in EngineDirs :
        (passLog # <<>> /\ fsEngines[d] = "ok") =>
            /\ get_engine(ManifestSid[d]) # "None"
            /\ inst[get_engine(ManifestSid[d])].dir = d

\* The entries of a pass that speak of the engine in directory d.
EntryOf(sid, d) ==
    \/ sid \in {d, ManifestSid[d]}
    \/ sid \in DOMAIN inst /\ inst[sid].dir = d

\* The reason the documentation promises for each failed start.
PromisedReason(stage) ==
    CASE stage = "timeout" -> "timeout"
      [] stage = "raise"   -> "exception_message"
      [] OTHER             -> "startup_failed"

\* C10: an engine whose start did not succeed has, in the result of the pass
\* and in the Descriptor Store, an entry of status invalid whose reason names
\* the cause (timeout, the exception's message, or a synthesized reason).
C10_FailedStartReportedInvalid ==
    \A d \in EngineDirs :
        (passLog # <<>> /\ fsEngines[d] \in {"false", "raise", "timeout"}) =>
            LET last == passLog[Len(passLog)].engines
                mine == {i \in 1..Len(last) : EntryOf(last[i].service_id, d)}
                rows == {u \in DOMAIN db : EntryOf(u, d)}
            IN  /\ mine # {}
                /\ \A i \in mine : /\ last[i].status = "invalid"
                                   /\ last[i].reason = PromisedReason(fsEngines[d])
                /\ rows # {}
                /\ \A u \in rows : /\ db[u].status = "invalid"
                                   /\ db[u].reason = PromisedReason(fsEngines[d])

----------------------------------------------------------------------------
\* Properties of the API Mapper.

\* C5: after any sequence of add_api_route calls every (full_path, method)
\* pair has at most one owning registration: two accepted registrations of
\* one full path never share a method.
C5_OneOwnerPerPathMethod ==
    \A i, j \in 1..Len(accepted) :
        (i < j /\ accepted[i].path = accepted[j].path) =>
            accepted[i].methods \cap accepted[j].methods = {}

FooPath == <<Sep, "api", Sep, "svc-a", Sep, "foo">>

\* A business descriptor whose route module declares GET /api/svc-a/foo.
DeclaresFoo(info) ==
    /\ info.type = "business"
    /\ info.cause = "ok"
    /\ info.module \in {"setup", "router"}
    /\ \E d \in info.routes :
           /\ normalize_path(SERVICE_API_PREFIX(info.service_id)) \o d.path = FooPath
           /\ upper(d.method) = "GET"

TwoDeclareFoo ==
    /\ Len(mapResult.services) = 2
    /\ DeclaresFoo(mapResult.services[1])
    /\ DeclaresFoo(mapResult.services[2])
    /\ mapResult.services[1].dir # mapResult.services[2].dir

\* list_apis(): the values of the registry.
list_apis == {[full_path |-> p, info |-> apiRegistry[p]] : p \in DOMAIN apiRegistry}

\* C6: when map_all_apis is given two business services that both declare
\* GET /api/svc-a/foo, the second one's id is in the failed list and
\* list_apis() holds exactly one entry for that path.
C6_SecondDeclarerFails ==
    TwoDeclareFoo =>
        /\ \E i \in 1..Len(mapResult.failed) :
               mapResult.failed[i] = mapResult.services[2].service_id
        /\ Cardinality({a \in list_apis : a.full_path = FooPath}) = 1

\* The routes of the application whose handler calls an engine's
\* handle_request: a route an engine owns, and the proxy's.
EngineReaching(r) == r.owner \in EngineIds \/ InvokesEngine(r)

\* The engines of the last mapping pass and the full paths of their apis.
EngineApis(info) ==
    {[sid |-> info.service_id,
      full_path |-> normalize_path(ENGINE_API_PREFIX(info.service_id))
                      \o normalize_path(info.apis[k].path)] : k \in 1..Len(info.apis)}

MappedEngineApis ==
    UNION {EngineApis(mapResult.services[i]) :
             i \in {x \in 1..Len(mapResult.services) :
                      mapResult.services[x].type = "engine"}}

\* C7: no route an engine owns is mounted on the main router or on the
\* application, an engine's router holds no route, the apis of a mapped engine
\* are in the api registry, and the only route of the application that reaches
\* an engine's handle_request is /internal/proxy/{engine_id}.
C7_EngineRoutesOnlyInRegistry ==
    /\ \A r \in mainRouter \cup appRoutes : r.owner \notin EngineIds
    /\ \A sid \in EngineIds \cap DOMAIN routers : routers[sid].routes = {}
    /\ \A a \in MappedEngineApis : a.full_path \in DOMAIN apiRegistry
    /\ {r.path : r \in {x \in appRoutes : EngineReaching(x)}} = {ProxyPath}

\* An engine with apis has been mapped by map_apis next to a business service
\* whose routes were mounted.
C7_EngineMappedBesideBusiness ==
    /\ MappedEngineApis # {}
    /\ \A a \in MappedEngineApis : apiRegistry[a.full_path].service_id = a.sid
    /\ \E r \in appRoutes : r.owner \in BusinessIds
    /\ mainRouter # {}

----------------------------------------------------------------------------
\* The asynchronous queue.

\* The step is a call of send_async_request.
EnqueueStep == lastOp'.op = "send_async_request" /\ lastOp' # lastOp

\* The step is a call of process_message_queue.
DrainStep == lastOp'.op = "process_message_queue" /\ (lastOp' # lastOp \/ queue # <<>>)

\* C12: send_async_request appends one pending request that carries the
\* request id it returns, and process_message_queue returns one result per
\* request queued since the previous drain, in submission order, each with
\* the request id given at enqueue time, and leaves the queue empty.
C12_DrainAnswersEveryRequestInOrder ==
    [][/\ EnqueueStep =>
           /\ Len(queue') = Len(queue) + 1
           /\ SubSeq(queue', 1, Len(queue)) = queue
           /\ queue'[Len(queue')].rid = lastOp'.ret.rid
           /\ \A i \in 1..Len(queue) : queue[i].rid # lastOp'.ret.rid
       /\ DrainStep =>
           /\ Len(lastOp'.ret.results) = Len(queue)
           /\ \A i \in 1..Len(queue) :
                  lastOp'.ret.results[i].rid = queue[i].rid
           /\ queue' = <<>>]_vars

\* A drain has answered two requests submitted to the same registered engine,
\* the first of which raised in the handler and the second of which returned.
C12_TwoRequestsDrained ==
    /\ lastOp.op = "process_message_queue"
    /\ queue = <<>>
    /\ Len(lastOp.ret.results) = 2
    /\ lastOp.ret.results[1].rid < lastOp.ret.results[2].rid
    /\ lastOp.ret.results[1].target = lastOp.ret.results[2].target
    /\ lastOp.ret.results[1].out = "raised"
    /\ lastOp.ret.results[2].out = "returned"

----------------------------------------------------------------------------
\* Broadcast.

\* The step is a call of broadcast.
BroadcastStep == lastOp'.op = "broadcast" /\ lastOp' # lastOp

\* The entries of the map the broadcast of this step returns.
BroadcastEntries == {lastOp'.ret.results[i] : i \in 1..Len(lastOp'.ret.results)}

\* C13: broadcast calls the handler of every engine registered with the
\* communicator exactly once and returns one entry per registered id; the
\* entry of an engine whose handler raised says error, the entry of every
\* other engine says success.
C13_BroadcastReachesEveryEngine ==
    [][BroadcastStep =>
        /\ Len(lastOp'.ret.results) = Cardinality(DOMAIN icEngines)
        /\ {r.engine_id : r \in BroadcastEntries} = DOMAIN icEngines
        /\ lastOp'.ran = {icEngines[x] : x \in DOMAIN icEngines}
        /\ \A r \in BroadcastEntries :
               r.status = IF handle_request_impl(inst[icEngines[r.engine_id]],
                                                 lastOp'.action) = "raised"
                          THEN "error" ELSE "success"]_vars

\* A broadcast over at least three registered engines in which one engine's
\* handler returned between two engines whose handlers raised.
C13_OneRaisesOthersAnswer ==
    /\ lastOp.op = "broadcast"
    /\ Len(lastOp.ret.results) >= 3
    /\ \E i, j, k \in 1..Len(lastOp.ret.results) :
           /\ i < j /\ j < k
           /\ lastOp.ret.results[i].status = "error"
           /\ lastOp.ret.results[j].status = "success"
           /\ lastOp.ret.results[k].status = "error"

----------------------------------------------------------------------------
\* Manifests the business pass rejects.

\* The business directories whose manifest validate_service_json rejects.
FailedValidation == {d \in BizDirs : fsBiz[d] = "baddb"}

\* C14: after a business discovery pass, the service id of every manifest
\* that failed validation, one seen for the first time included, has a
\* descriptor in the store with status invalid and a reason, and is in
\* neither the business table nor the service table.
C14_RejectedManifestStoredInvalid ==
    Len(passLog) >= 1 =>
        \A d \in FailedValidation :
            /\ ManifestSid[d] \in DOMAIN db
            /\ db[ManifestSid[d]].status = "invalid"
            /\ db[ManifestSid[d]].reason # "none"
            /\ ManifestSid[d] \notin DOMAIN businesses
            /\ ManifestSid[d] \notin DOMAIN services

----------------------------------------------------------------------------
\* Manifests that do not parse or lack a required field.

\* The stages in which a manifest is malformed JSON or lacks a required field.
BrokenManifest == {"badjson", "noname", "nofield"}

\* C15: a pass over a tree holding a manifest that is malformed JSON or lacks
\* a required field completes with one entry per directory, and the entry of
\* each such manifest has status invalid and a reason.
C15_BrokenManifestReportedInvalid ==
    passLog # <<>> =>
        LET last == passLog[Len(passLog)] IN
        /\ Len(last.engines) = Len(EngineDirSeq)
        /\ Len(last.businesses) = Len(BizDirSeq)
        /\ \A i \in 1..Len(EngineDirSeq) :
               fsEngines[EngineDirSeq[i]] \in BrokenManifest =>
                   /\ last.engines[i].status = "invalid"
                   /\ last.engines[i].reason # "none"
        /\ \A i \in 1..Len(BizDirSeq) :
               fsBiz[BizDirSeq[i]] \in BrokenManifest =>
                   /\ last.businesses[i].status = "invalid"
                   /\ last.businesses[i].reason # "none"

----------------------------------------------------------------------------
\* A business manifest without a database section.

\* C17: a business manifest that has service_id, service_name and version but
\* no database key is reported invalid with the reason "Missing database
\* configuration", and is not registered: it is in neither in-memory table
\* and the store holds no valid descriptor for it.
C17_NoDatabaseReportedInvalid ==
    passLog # <<>> =>
        LET last == passLog[Len(passLog)] IN
        \A i \in 1..Len(BizDirSeq) :
            fsBiz[BizDirSeq[i]] = "nodb" =>
                LET sid == ManifestSid[BizDirSeq[i]] IN
                /\ last.businesses[i].service_id = sid
                /\ last.businesses[i].status = "invalid"
                /\ last.businesses[i].reason = "missing_database_configuration"
                /\ sid \notin DOMAIN businesses
                /\ sid \notin DOMAIN services
                /\ sid \in DOMAIN db => db[sid].status # "valid"

\* A pass has processed a business manifest without a database section and
\* registered an engine after it.
C17_NoDatabasePassDone ==
    /\ passLog # <<>>
    /\ fsBiz["b1"] = "nodb"
    /\ Len(passLog[Len(passLog)].businesses) = 1
    /\ DOMAIN engines # {}

----------------------------------------------------------------------------
\* The interaction rule.

\* The identifier names an engine: an engine manifest's service id, an engine
\* instance, an entry of the engine table or a stored engine descriptor.
IsEngine(x) ==
    \/ x \in {ManifestSid[d] : d \in EngineDirs}
    \/ x \in DOMAIN inst
    \/ x \in DOMAIN engines
    \/ x \in DOMAIN db /\ db[x].type = "engine"

\* The step is a call of is_service_allowed.
AllowedStep == lastOp'.op = "is_service_allowed" /\ lastOp' # lastOp

\* C19: is_service_allowed(source, target) answers false whenever source and
\* target both name engines, whatever the registry and the store hold.
C19_EngineToEngineNeverAllowed ==
    [][(AllowedStep /\ IsEngine(lastOp'.caller) /\ IsEngine(lastOp'.target)) =>
          lastOp'.ret.status = "false"]_vars

\* The rule has refused a pair of distinct engines whose descriptors are both
\* stored, while a stored business descriptor would be allowed to call one.
C19_TwoStoredEnginesRefused ==
    /\ lastOp.op = "is_service_allowed"
    /\ lastOp.caller # lastOp.target
    /\ lastOp.caller \in DOMAIN db /\ db[lastOp.caller].type = "engine"
    /\ lastOp.target \in DOMAIN db /\ db[lastOp.target].type = "engine"
    /\ lastOp.ret.status = "false"
    /\ \E b \in DOMAIN db : db[b].type = "business" /\ is_service_allowed(b, lastOp.target)

----------------------------------------------------------------------------
\* Names and versions of the registered instances.

\* The instances in the registry's in-memory tables, each with the
\* service_name and version it was registered with.
RegisteredInstances ==
    {[id |-> u, service_name |-> inst[engines[u]].service_name,
      version |-> inst[engines[u]].version] : u \in DOMAIN engines}
    \cup
    {[id |-> ManifestSid[d], service_name |-> fsMeta[d].service_name,
      version |-> fsMeta[d].version] :
        d \in {b \in BizDirs : ManifestSid[b] \in DOMAIN businesses}}

\* C18: no two instances in the registry's in-memory tables, businesses or
\* engines, have the same (service_name, version) pair.
C18_NameVersionUnique ==
    \A a, b \in RegisteredInstances :
        a.id # b.id =>
            <<a.service_name, a.version>> # <<b.service_name, b.version>>

----------------------------------------------------------------------------
\* The validators against the schema.

\* The schema of a service manifest: the three required fields, a supported
\* database type when a database section is present, path and method on
\* every entry of apis.
SatisfiesServiceSchema(m) ==
    /\ Has(m, "service_id") /\ Has(m, "service_name") /\ Has(m, "version")
    /\ Has(m, "database") => m.database \in SupportedDatabases
    /\ Has(m, "apis") => m.apis = "ok"

\* The schema of an engine manifest: the same, and engine_type one of kernel
\* and network.
SatisfiesEngineSchema(m) ==
    /\ SatisfiesServiceSchema(m)
    /\ m.engine_type \in ENGINE_TYPES

\* The reason the schema names for the first violation of a manifest.
NamedViolation(m, isEngine) ==
    IF ~(Has(m, "service_id") /\ Has(m, "service_name") /\ Has(m, "version"))
       \/ (isEngine /\ ~Has(m, "engine_type"))
    THEN {"Missing required field", "Missing required fields"}
    ELSE IF isEngine /\ m.engine_type \notin ENGINE_TYPES
    THEN {"Invalid engine type"}
    ELSE IF m.database = "oracle"
    THEN {"Unsupported database type"}
    ELSE {"Missing required field", "Database config must be a dictionary",
          "APIs must be a list"}

\* C16: validate_service_json and validate_engine_json return valid = true
\* exactly when the manifest satisfies the schema, and otherwise valid = false
\* with a reason that names the violation.
C16_ValidExactlyWhenSchemaHolds ==
    /\ verdict.fn = "validate_service_json" =>
           /\ verdict.outcome = "returned"
           /\ verdict.valid <=> SatisfiesServiceSchema(manifest)
           /\ ~verdict.valid => verdict.reason \in NamedViolation(manifest, FALSE)
    /\ verdict.fn = "validate_engine_json" =>
           /\ verdict.outcome = "returned"
           /\ verdict.valid <=> SatisfiesEngineSchema(manifest)
           /\ ~verdict.valid => verdict.reason \in NamedViolation(manifest, TRUE)

----------------------------------------------------------------------------
\* Mapping twice.

----------------------------------------------------------------------------
\* Termination of discovery.

\* The pass is over and its result has an entry for every engine directory.
PassDone ==
    /\ disc.pc = "idle"
    /\ passLog # <<>>
    /\ Len(passLog[Len(passLog)].engines) = Len(EngineDirSeq)

\* C11: a discovery pass that has begun ends, also when an engine's start()
\* never returns: the join gives up after the timeout, the worker is left
\* behind, and the remaining engine directories are processed.
C11_DiscoveryTerminates == (disc.pc # "idle") ~> PassDone

\* A pass has ended in which the first engine's start() never returned, its
\* worker was abandoned, and the second engine was started and registered.
C11_PassedHungEngine ==
    /\ PassDone
    /\ fsEngines["d1"] = "timeout"
    /\ fsEngines["d2"] = "ok"
    /\ disc.abandoned >= 1
    /\ \E u \in DOMAIN engines : inst[u].dir = "d2" /\ inst[u].status = "running"

----------------------------------------------------------------------------
\* Properties of path normalisation.

WellFormedPath(p) ==
    /\ p # <<>>
    /\ Head(p) = Sep
    /\ (p = <<Sep>> \/ p[Len(p)] # Sep)

\* C21: every full path add_api_route stores in the route table is the
\* output of _normalize_path under the router's prefix, and it starts with
\* "/" and does not end with "/" unless it is the root path "/".
C21_StoredPathsNormalized ==
    \A full_path \in DOMAIN apiRegistry : WellFormedPath(full_path)

----------------------------------------------------------------------------
\* Properties of the plugin pipeline.

PluginIds(plugins) == {plugins[i].id : i \in 1..Len(plugins)}

StatusOf(plugins, id) ==
    IF id \in PluginIds(plugins)
    THEN plugins[CHOOSE i \in 1..Len(plugins) : plugins[i].id = id].status
    ELSE "none"

\* Every status a plugin of the table has that it did not have before the
\* step was assigned by an initialize or a shutdown of that step.
StatusChangesLogged ==
    \A i \in 1..Len(pm'.plugins) :
        LET x == pm'.plugins[i]
        IN  StatusOf(pm.plugins, x.id) # x.status =>
                \E k \in 1..Len(pm'.events) :
                    /\ pm'.events[k].ev \in {"initialize", "shutdown"}
                    /\ pm'.events[k].id = x.id
                    /\ pm'.events[k].to = x.status

\* initialize yields running exactly when every declared dependency is in
\* the table with status running and error otherwise; shutdown yields stopped.
TransitionAllowed(e) ==
    /\ e.ev = "initialize" =>
           \/ e.to = "running" /\ \A d \in e.seen : d.status = "running"
           \/ e.to = "error" /\ \E d \in e.seen : d.status # "running"
    /\ e.ev = "shutdown" => e.to = "stopped"

TableIds == [i \in 1..Len(pm.plugins) |-> pm.plugins[i].id]

ReturnsResult(i) == pm.beh[pm.plugins[i].name] = "value"

FirstResult ==
    IF \E i \in 1..Len(pm.plugins) : ReturnsResult(i)
    THEN CHOOSE i \in 1..Len(pm.plugins) :
             ReturnsResult(i) /\ \A j \in 1..(i - 1) : ~ReturnsResult(j)
    ELSE 0

\* C23: a hook that returns a result (request-incoming, route-matching,
\* response-outgoing) invokes the plugins in the order of the plugin table up
\* to and including the first one that returns a result, returns that result
\* and invokes no later plugin (None, after all of them, when no plugin
\* returns a result); the observational hooks (service-calling-engine,
\* engine-responding) invoke every loaded plugin whatever earlier ones return.
C23_FirstResultEndsHook ==
    pm.op = "notify" =>
        IF pm.notified.hook \in ReturningHooks /\ FirstResult # 0
        THEN /\ pm.notified.invoked = SubSeq(TableIds, 1, FirstResult)
             /\ pm.notified.ret = pm.plugins[FirstResult].name
        ELSE /\ pm.notified.invoked = TableIds
             /\ pm.notified.ret = "None"

\* A returning hook was cut short by the second of three plugins.
C23_SecondPluginEndedHook ==
    /\ pm.op = "notify"
    /\ Len(pm.plugins) = 3
    /\ pm.notified.hook = "route_matching"
    /\ Len(pm.notified.invoked) = 2
    /\ pm.notified.ret = pm.plugins[2].name

\* C24: when a plugin raises inside a hook the notify operation still
\* returns to its caller, and the plugins after the raising one are invoked
\* as if it had returned nothing: every later plugin, up to the one whose
\* result ends the hook.
C24_RaisingPluginDoesNotStopHook ==
    pm.op = "notify" =>
        /\ pm.notified.outcome = "returned"
        /\ \A i \in 1..Len(pm.plugins) :
               (pm.beh[pm.plugins[i].name] = "raise" /\ i <= Len(pm.notified.invoked)) =>
                   \A j \in (i + 1)..Len(pm.plugins) :
                       (pm.notified.hook \in ReturningHooks /\ FirstResult # 0
                            /\ FirstResult < j)
                       \/ (j <= Len(pm.notified.invoked) /\ pm.notified.invoked[j] = TableIds[j])

\* The first of three plugins raised in a hook and both later ones ran.
C24_RaisedFirstOthersRan ==
    /\ pm.op = "notify"
    /\ Len(pm.plugins) = 3
    /\ pm.beh[pm.plugins[1].name] = "raise"
    /\ pm.notified.invoked = TableIds
    /\ pm.notified.outcome = "returned"

\* The files a hot-reload pass has to load: those without a recorded mtime and
\* those whose mtime differs from the recorded one.
NewOrChanged(p) ==
    {f \in PluginFiles :
        /\ p.fs[f].present
        /\ (f \notin DOMAIN p.plugin_mod_times \/ p.fs[f].mtime # p.plugin_mod_times[f])}

Imported(p) == {p.events[k].file : k \in {j \in 1..Len(p.events) : p.events[j].ev = "import"}}

\* C25: a hot_reload_plugins() pass loads exactly the plugin files that are
\* new or whose mtime differs from the recorded one, and every plugin whose
\* file's mtime is unchanged is the same instance with the same status after
\* the pass.
C25_HotReloadLeavesUnchangedAlone ==
    [][pm'.op = "hot_reload_plugins" =>
          /\ Imported(pm') = NewOrChanged(pm)
          /\ \A i \in 1..Len(pm.plugins) :
                 pm.plugins[i].file \notin NewOrChanged(pm) =>
                     \E j \in 1..Len(pm'.plugins) : pm'.plugins[j] = pm.plugins[i]]_vars

\* The instance that holds name n in the table just before step k of the
\* operation whose steps are events: the one the operation registered last
\* under n, else the one the table held when the operation began (0: none).
HolderBefore(before, events, k, n) ==
    LET earlier == {j \in 1..(k - 1) :
                       events[j].ev = "register" /\ PluginClass[events[j].file] = n}
    IN  IF earlier # {}
        THEN events[CHOOSE j \in earlier : \A i \in earlier : i <= j].id
        ELSE IF IndexOf(before.plugins, n) # 0
        THEN before.plugins[IndexOf(before.plugins, n)].id
        ELSE 0

LoadOps == {"load_plugins", "hot_reload_plugins", "reload_plugins"}

\* C26: whenever a load or a hot-reload registers a new instance under a name
\* the table already holds, shutdown of the old instance was invoked before
\* the registration; the table holds at most one instance per name; and the
\* mtime recorded for the file of the new instance is the file's mtime.
C26_OldShutDownBeforeReplaced ==
    [][pm'.op \in LoadOps =>
          /\ \A k \in 1..Len(pm'.events) :
                 LET e == pm'.events[k]
                     old == HolderBefore(pm, pm'.events, k, PluginClass[e.file])
                 IN  (e.ev = "register" /\ old # 0) =>
                         /\ old # e.id
                         /\ \E j \in 1..(k - 1) :
                                pm'.events[j].ev = "shutdown" /\ pm'.events[j].id = old
                         /\ e.file \in DOMAIN pm'.plugin_mod_times
                         /\ pm'.plugin_mod_times[e.file] = pm'.fs[e.file].mtime
          /\ \A i, j \in 1..Len(pm'.plugins) :
                 pm'.plugins[i].name = pm'.plugins[j].name => i = j]_vars

\* A hot-reload replaced a running plugin by a new instance of the same name.
C26_ReplacedByHotReload ==
    /\ pm.op = "hot_reload_plugins"
    /\ \E j, k \in 1..Len(pm.events) :
           /\ j < k
           /\ pm.events[j].ev = "shutdown" /\ pm.events[j].from = "running"
           /\ pm.events[k].ev = "register"
           /\ pm.events[j].id # pm.events[k].id
           /\ PluginClass[pm.events[j].file] = PluginClass[pm.events[k].file]
           /\ StatusOf(pm.plugins, pm.events[k].id) = "running"
           /\ pm.plugin_mod_times[pm.events[k].file] = MaxMtime

\* The step is an engine call through the communicator or the proxy that
\* reached the engine's handler while plugins are loaded.
EngineCallStep ==
    /\ lastOp'.op \in {"send_request", "proxy_request"}
    /\ lastOp' # lastOp
    /\ lastOp'.ran # {}
    /\ pm.plugins # <<>>

\* C27: every engine call made through send_request or the Service Proxy
\* fires the service-calling-engine hook on all loaded plugins before the
\* engine's handler is invoked and the engine-responding hook on all of them
\* after it returns, in that order.
C27_EngineCallFiresBothHooks ==
    [][EngineCallStep =>
          /\ Len(lastOp'.hooks) = 2
          /\ lastOp'.hooks[1].hook = "service_calling_engine"
          /\ lastOp'.hooks[1].invoked = TableIds
          /\ lastOp'.hooks[2].hook = "engine_responding"
          /\ lastOp'.hooks[2].invoked = TableIds]_vars

----------------------------------------------------------------------------
\* Properties of the Database Link Manager.

\* C28: the session cache holds at most one session per service id.  A
\* get_session that finds a cached session returns it when the liveness probe
\* passes; when the probe fails the cached session is closed and dropped and
\* a newly created session for the same service id is cached and returned,
\* and the caller sees an error only when creating the session fails.
C28_StaleSessionReplaced ==
    [][(dbl'.last.op = "get_session" /\ dbl'.last.sid # "") =>
          LET sid == dbl'.last.sid
              ret == dbl'.last.ret
              cached == sid \in DOMAIN dbl.sessions
          IN  /\ (cached /\ dbl'.last.probed = "ok") =>
                     /\ ret = DbRet("session", dbl.sessions[sid])
                     /\ dbl'.sessions = dbl.sessions
              /\ (cached /\ dbl'.last.probed = "raise") =>
                     /\ dbl.sessions[sid] \in dbl'.last.closed
                     /\ ret # DbRet("session", dbl.sessions[sid])
                     /\ \/ /\ ret.kind = "session"
                           /\ sid \in DOMAIN dbl'.sessions
                           /\ dbl'.sessions[sid] = ret.session
                        \/ /\ ret.kind = "raised"
                           /\ dbl'.last.created = "raise"
                           /\ sid \notin DOMAIN dbl'.sessions
              /\ ret.kind = "raised" => dbl'.last.created = "raise"
              /\ \A s, t \in DOMAIN dbl'.sessions :
                     dbl'.sessions[s] = dbl'.sessions[t] => s = t]_vars

\* A cached session failed the probe and was replaced by a new one.
C28_ReplacedStaleSession ==
    /\ dbl.last.op = "get_session"
    /\ dbl.last.probed = "raise"
    /\ dbl.last.closed # {}
    /\ dbl.last.ret.kind = "session"
    /\ dbl.sessions[dbl.last.sid] = dbl.last.ret.session

\* C29: when disconnect_all() returns, dispose() has been called on the
\* engine of every connection that was registered, also when some of the
\* calls raise, every cached session has been closed, and the connection
\* table and the session cache are empty.
C29_DisconnectAllReleasesEveryPool ==
    [][dbl'.last.op = "disconnect_all" =>
          /\ dbl'.last.disposed = {dbl.connections[s] : s \in DOMAIN dbl.connections}
          /\ dbl'.last.closed = {dbl.sessions[s] : s \in DOMAIN dbl.sessions}
          /\ dbl'.connections = EmptyMap
          /\ dbl'.sessions = EmptyMap
          /\ dbl'.last.ret = DbRet("True", 0)]_vars

\* disconnect_all went over two connections of which one failed to release.
C29_ReleasedDespiteFailure ==
    /\ dbl.last.op = "disconnect_all"
    /\ Cardinality(dbl.last.disposed) = 2
    /\ Cardinality(dbl.last.failed) = 1
    /\ dbl.last.closed # {}
    /\ dbl.connections = EmptyMap

----------------------------------------------------------------------------
\* Properties of the Outer Communicator.

CallAnswered ==
    /\ oc.last.requests = 1
    /\ oc.last.outcome \in {"timeout", "transport_error"} =>
           /\ oc.last.ret.kind = "envelope"
           /\ oc.last.ret.status = "error"

----------------------------------------------------------------------------
\* Properties of LinkGateway.start.

ShutdownTails == {<<>>, <<"shutdown_plugins">>, <<"shutdown_plugins", "disconnect_all">>}

\* The calls start() has made are an initial part of the stated order,
\* followed by nothing or by the calls of shutdown() in their order.
InStatedOrder ==
    \E n \in 0..Len(BootSteps), tail \in ShutdownTails :
        boot.steps = SubSeq(BootSteps, 1, n) \o tail

\* C31: start() makes its calls in the order port check, plugin loading,
\* service discovery, API mapping, serving; the registry's discovery has run
\* exactly once by the time the APIs are mapped and never more than once; and
\* when the exception of a failed step has left start(), shutdown() has run
\* before it: shutdown_plugins, then disconnect_all, so that no plugin is
\* left in the table and no database connection is left.
C31_StartOrderThenShutdownOnFailure ==
    /\ InStatedOrder
    /\ Len(passLog) <= 1
    /\ boot.pc \in {"discovered", "mapped", "serving", "returned"} => Len(passLog) = 1
    /\ boot.pc = "plugins_down" => pm.plugins = <<>>
    /\ boot.pc = "raised" =>
          /\ Len(boot.steps) >= 2
          /\ SubSeq(boot.steps, Len(boot.steps) - 1, Len(boot.steps))
                 = <<"shutdown_plugins", "disconnect_all">>
          /\ pm.plugins = <<>>
          /\ dbl.connections = EmptyMap

\* Witness: serving raised after plugins had been loaded and a connection
\* created; the plugins were shut down and the connection disposed of.
C31_ServingRaisedAfterFullStart ==
    /\ boot.pc = "raised"
    /\ Len(boot.steps) = 7
    /\ \E k \in 1..Len(pm.events) : pm.events[k].ev = "shutdown"
    /\ dbl.last.disposed # {}

----------------------------------------------------------------------------
\* Properties of the health check.

\* C32: every engine the pass started and registered (its status is running)
\* is healthy for check_service_health, and a proxy request that names it
\* with a non-empty action ran its handler and was not answered 503.
C32_RunningEngineIsHealthy ==
    \A sid \in DOMAIN engines :
        inst[engines[sid]].status = "running" =>
            /\ check_service_health(sid)
            /\ (lastOp.op = "proxy_request" /\ lastOp.target = sid /\ lastOp.action # "")
                   => (lastOp.ran = {sid} /\ lastOp.ret # HttpError(503))

----------------------------------------------------------------------------
\* Properties of residency.

\* The engine directories the last finished pass reported invalid.
InvalidDirs ==
    IF passLog = <<>> THEN {}
    ELSE LET eres == passLog[Len(passLog)].engines
         IN  {d \in EngineDirs : \E i \in 1..Len(eres) :
                  eres[i].service_id = d /\ eres[i].status = "invalid"}

\* C33: an engine whose entry in the discovery result reads invalid is not
\* resident: no instance built from its directory is in the registry's
\* engine or service table or in the Inner Communicator's registry, and
\* none has its direct-call flag set.
C33_InvalidEngineNeverResident ==
    disc.pc = "idle" =>
        \A d \in InvalidDirs :
            /\ \A sid \in DOMAIN engines : inst[engines[sid]].dir # d
            /\ \A sid \in (DOMAIN services) \cap (DOMAIN inst) : inst[sid].dir # d
            /\ \A x \in DOMAIN icEngines : inst[icEngines[x]].dir # d
            /\ \A u \in DOMAIN inst : inst[u].dir = d => ~inst[u].allow_direct_call

\* C34: whatever passes, reloads and unregistrations have run, the Inner
\* Communicator's registry is the registry's engine table: the same ids with
\* the same instances.
C34_CommunicatorHoldsExactlyResidentEngines ==
    icEngines = engines

----------------------------------------------------------------------------
\* Properties of the api registry.

\* C35: every route mounted on the main router for a business service has an
\* entry in the api registry under the same full path, with the same methods
\* and the same owning service.
C35_MountedRoutesAreListed ==
    \A r \in mainRouter :
        r.owner \in BusinessIds =>
            /\ r.path \in DOMAIN apiRegistry
            /\ apiRegistry[r.path].service_id = r.owner
            /\ apiRegistry[r.path].methods = r.methods

----------------------------------------------------------------------------
\* Properties of get_db under parallel requests.

\* C36: while a request is using the session get_db handed it, that session
\* is still the cached session of its service id: no other request has
\* closed it or removed it from the cache.
C36_SessionInUseStaysCached ==
    \A r \in DOMAIN reqs :
        /\ reqs[r].sid \in DOMAIN dbl.sessions
        /\ dbl.sessions[reqs[r].sid] = reqs[r].session

----------------------------------------------------------------------------
\* Properties of the start timeout.

\* C37: an engine whose start the registry gave up on after the timeout is
\* never seen with status running, is never healthy for check_service_health
\* and never runs the handler of a dispatched request.
C37_AbandonedStartHasNoEffect ==
    \A u \in disc.gaveup :
        /\ inst[u].status # "running"
        /\ ~check_service_health(u)
        /\ u \notin lastOp.ran

----------------------------------------------------------------------------
\* Properties of a failed plugin load.

\* The files whose new instance failed to initialize in the step's load or
\* hot reload while an instance of the same name was in the table and no
\* file of that name loaded successfully in the same operation.
FailedOverLoaded ==
    {f \in PluginFiles :
        /\ \E k \in 1..Len(pm'.failed) : pm'.failed[k] = f
        /\ IndexOf(pm.plugins, PluginClass[f]) # 0
        /\ \A k \in 1..Len(pm'.success) : PluginClass[pm'.success[k]] # PluginClass[f]}

\* C38: a load or hot reload in which the new instance of a plugin file
\* fails to initialize leaves the plugin of that name as it was: still in
\* the table, the same instance, with the status it had.
C38_FailedLoadKeepsOldPlugin ==
    [][(pm'.op \in {"load_plugins", "hot_reload_plugins"} /\ pm' # pm) =>
          \A f \in FailedOverLoaded :
              LET n == PluginClass[f]
              IN  /\ IndexOf(pm'.plugins, n) # 0
                  /\ pm'.plugins[IndexOf(pm'.plugins, n)] = pm.plugins[IndexOf(pm.plugins, n)]]_vars

----------------------------------------------------------------------------
\* Properties of the health listing.

\* The ids the last finished pass reported valid.
ValidatedByLastPass ==
    IF passLog = <<>> THEN {}
    ELSE LET last == passLog[Len(passLog)]
         IN  {last.businesses[i].service_id :
                  i \in {j \in 1..Len(last.businesses) : last.businesses[j].status = "valid"}}
             \cup {last.engines[i].service_id :
                  i \in {j \in 1..Len(last.engines) : last.engines[j].status = "valid"}}

\* C39: after a pass, check_all_services_health lists as healthy only
\* services the most recent pass validated; a service whose manifest has
\* left the filesystem is not among them.
C39_HealthyOnlyIfValidatedByLastPass ==
    passLog # <<>> =>
        /\ check_all_services_health \subseteq ValidatedByLastPass
        /\ \A d \in BizDirs : fsBiz[d] = "absent" /\ ManifestSid[d] \notin ValidatedByLastPass
               => ManifestSid[d] \notin check_all_services_health

----------------------------------------------------------------------------
\* Properties of the session cache.

\* C40: every cached session was made by the connection now stored under
\* its service id; in particular a service id with a cached session has a
\* connection.
C40_CachedSessionFromCurrentConnection ==
    \A sid \in DOMAIN dbl.sessions :
        /\ sid \in DOMAIN dbl.connections
        /\ dbl.origin[dbl.sessions[sid]] = dbl.connections[sid]

====
